---- MODULE Spec2Model ----
(***************************************************************************)
(* hltv-match-predictor: the fetch gateway (src/services/hltvClient.js     *)
(* with its cache manager) and the scoring pipeline                        *)
(* (src/prediction/strengthCalculator.js, playerStrength.js).              *)
(*                                                                         *)
(* Time is counted in ticks.  setTimeout fires no earlier than its delay,  *)
(* so a timer is a countdown that Tick decrements and that may fire once   *)
(* it has reached 0.  A cache entry's timestamp is kept as its age         *)
(* (now - timestamp), saturated one tick past the expiration.              *)
(***************************************************************************)
EXTENDS Integers, Sequences, FiniteSets, TLC

\* ------------------------------------------------------------------------
\* Configuration (hltvClient.js defaultConfig, cacheManager module state).
\* Durations are in ticks; the counts are the defaults of the source.
\* ------------------------------------------------------------------------
retryAttempts == 3
maxConcurrentRequests == 1
delayBetweenCalls == 1
retryDelay == 1
saveDebounceMs == 2
cacheExpirationHours == 2

\* Concurrent calls into the gateway (call slots).
NumTasks == 2
Tasks == 1..NumTasks

\* The player ids asked for.  The cache is keyed by id and entries of
\* different ids never touch each other, so one id, asked for by several
\* calls at once, together with the uncached head-to-head request gives
\* every interleaving at the limiter and at a cache entry.
Players == {"p1"}

\* What one upstream call can do: return valid stats, return nothing,
\* return stats whose rating is not a number, fail with a transient error,
\* fail with any other error.
Outcomes == {"stats", "empty", "badRating", "transient", "permanent"}

\* What a call asks for: a player's stats (fetchPlayerStatsById, cached) or
\* the head-to-head results (getHeadToHeadResults, which like the match-list
\* request goes through _retryableRequest without the cache).
H2H == "h2h"
Targets == Players \cup {H2H}

NoEntry == [present |-> FALSE, stats |-> "null", age |-> 0]
AgeCap == cacheExpirationHours + 1
Min(a, b) == IF a < b THEN a ELSE b

VARIABLES
    isInitialized,      \* hltvClient.js: isInitialized
    exited,             \* the process has exited
    isTestMode,         \* --test on the command line
    playerStatsCache,   \* cacheManager: Map playerId -> {stats, timestamp}
    cacheFile,          \* the persisted cache table
    saveTimers,         \* pending setTimeout callbacks of saveCache (countdowns)
    saveCacheTimeout,   \* cacheManager: the handle kept in saveCacheTimeout
    syncSave,           \* what saveCacheSync logged at exit: skipped/saved/error
    activeCount,        \* p-limit: running operations
    queue,              \* p-limit: waiting operations, FIFO
    pc,                 \* per task: where the async call is suspended
    player,             \* per task: the player id asked for (H2H: head-to-head)
    attempt,            \* per task: _retryableRequest's loop counter
    timer,              \* per task: countdown of the pending delay()
    result,             \* per task: what the call returned
    upstreamCalls,      \* per task: upstream calls issued by the current call
    lastOutcome,        \* per task: outcome of its latest upstream call
    sinceLastEnd,       \* ticks since an upstream call last ended (saturated)
    phase,              \* predictWinProbability: where the call is suspended
    roster,             \* per team: players.length of the team record
    hasValidRanks,      \* both team records carry a numeric rank
    fetched,            \* per team and roster slot: the settled statsPromise
    prediction,         \* what predictWinProbability returned
    runPhase,           \* runPredictions: where the run is suspended
    numMatches,         \* runPredictions: matches.length
    track,              \* runPredictions: options.track
    visited,            \* runPredictions: the matches the loop has taken up, in order
    successCount,       \* runPredictions: successCount
    failCount,          \* runPredictions: failCount
    predictions,        \* runPredictions: predictions.length
    playerStats,        \* calculateWeightedPlayerRating: its argument (stats)
    ratingDone,         \* calculateWeightedPlayerRating: has returned
    playerRating,       \* calculateWeightedPlayerRating: its return value
    strengthPhase,      \* calculateAveragePlayerStats: where the call is
    players,            \* calculateAveragePlayerStats: players.length
    planned,            \* per player: what the player's fetch is going to do
    results,            \* calculateAveragePlayerStats: the settled statsPromises
    completion,         \* the players in the order in which their fetches settled
    summary,            \* calculateAveragePlayerStats: its return value
    nudgePhase,         \* predictWinProbability's adjustments: where they are
    baseDifference,     \* team1 strength - team2 strength
    teamRanks,          \* team1Data.rank and team2Data.rank
    h2hResults,         \* what client.getHeadToHeadResults is going to do
    rankNudge,          \* the rank nudge added to effectiveDifference
    h2hNudge,           \* the head-to-head nudge added to effectiveDifference
    h2hEntry,           \* the values written into the H2HNudge entry of adjustments
    effectiveDifference,
    adjustments,        \* the notes pushed to adjustments, in order
    mapName,            \* whether a map was requested (mapName is truthy)
    mapNudge,           \* the map nudge
    resolveDone,        \* steps 5 and 6 of predictWinProbability have run
    finalDifference,    \* effectiveDifference as it reaches step 5
    metrics,            \* confidenceMetrics as they reach step 6
    team1Prob,          \* clampedTeam1Prob
    team2Prob,          \* clampedTeam2Prob
    confidence,         \* what calculateConfidenceLevel returned
    fetchId,            \* fetchPlayerStatsById: playerId
    statsCache,         \* per player id: what getCacheValue finds for it
    response,           \* what the upstream getPlayerStats call is going to do
    fetchReturn,        \* fetchPlayerStatsById: its return value
    error,              \* _isTransientError: its argument
    transient,          \* _isTransientError: its return value
    loadFile,           \* loadCache: what is found at the cache file's path
    loadDone,           \* loadCache: has returned
    loadSave,           \* loadCache: its pruning called saveCache()
    loadedCache,        \* loadCache: playerStatsCache as it leaves it
    jobPos,             \* per scheduler job: the match its runPredictions has reached
    stores,             \* per match: the storePrediction calls made for it
    cronJobs,           \* the scheduler's cron jobs that are running
    shutdownLog         \* what the process did from the signal to its end, in order

vars == <<isInitialized, exited, isTestMode, playerStatsCache, cacheFile,
          saveTimers, saveCacheTimeout, syncSave, activeCount, queue, pc, player,
          attempt, timer, result, upstreamCalls, lastOutcome, sinceLastEnd,
          phase, roster, hasValidRanks, fetched, prediction,
          runPhase, numMatches, track, visited, successCount, failCount, predictions,
          playerStats, ratingDone, playerRating,
          strengthPhase, players, planned, results, completion, summary,
          nudgePhase, baseDifference, teamRanks, h2hResults, rankNudge, h2hNudge, h2hEntry,
          effectiveDifference, adjustments, mapName, mapNudge,
          resolveDone, finalDifference, metrics, team1Prob, team2Prob, confidence,
          fetchId, statsCache, response, fetchReturn, error, transient,
          loadFile, loadDone, loadSave, loadedCache,
          jobPos, stores, cronJobs, shutdownLog>>

cacheVars == <<playerStatsCache, cacheFile, saveTimers, saveCacheTimeout>>
limiterVars == <<activeCount, queue>>
taskVars == <<pc, player, attempt, timer, result, upstreamCalls, lastOutcome>>
predictVars == <<phase, roster, hasValidRanks, fetched, prediction>>
gatewayVars == <<isInitialized, exited, isTestMode, syncSave, cacheVars, limiterVars,
                 taskVars, sinceLastEnd>>
batchVars == <<runPhase, numMatches, track, visited, successCount, failCount, predictions>>

\* What an action of the gateway, of predictWinProbability, of
\* runPredictions, of the rating functions, of calculateAveragePlayerStats
\* and of the adjustments leaves alone.
ratingVars == <<playerStats, ratingDone, playerRating>>
strengthVars == <<strengthPhase, players, planned, results, completion, summary>>
nudgeVars == <<nudgePhase, baseDifference, teamRanks, h2hResults, rankNudge, h2hNudge, h2hEntry,
               effectiveDifference, adjustments, mapName, mapNudge>>
resolveVars == <<resolveDone, finalDifference, metrics, team1Prob, team2Prob, confidence>>
fetchVars == <<fetchId, statsCache, response, fetchReturn>>
classifyVars == <<error, transient>>
loadVars == <<loadFile, loadDone, loadSave, loadedCache>>
jobVars == <<jobPos, stores>>
shutdownVars == <<cronJobs, shutdownLog>>
offGatewayVars == <<predictVars, batchVars, ratingVars, strengthVars, nudgeVars, resolveVars,
    fetchVars, classifyVars, loadVars,
    jobVars, shutdownVars>>
offPredictVars == <<gatewayVars, batchVars, ratingVars, strengthVars, nudgeVars, resolveVars,
    fetchVars, classifyVars, loadVars,
    jobVars, shutdownVars>>
offBatchVars == <<gatewayVars, predictVars, ratingVars, strengthVars, nudgeVars, resolveVars,
    fetchVars, classifyVars, loadVars,
    jobVars, shutdownVars>>
offRatingVars == <<gatewayVars, predictVars, batchVars, strengthVars, nudgeVars, resolveVars,
    fetchVars, classifyVars, loadVars,
    jobVars, shutdownVars>>
offStrengthVars == <<gatewayVars, predictVars, batchVars, ratingVars, nudgeVars, resolveVars,
    fetchVars, classifyVars, loadVars,
    jobVars, shutdownVars>>
offNudgeVars == <<gatewayVars, predictVars, batchVars, ratingVars, strengthVars, resolveVars,
    fetchVars, classifyVars, loadVars,
    jobVars, shutdownVars>>
offResolveVars == <<gatewayVars, predictVars, batchVars, ratingVars, strengthVars, nudgeVars,
    fetchVars, classifyVars, loadVars,
    jobVars, shutdownVars>>
offFetchVars == <<gatewayVars, predictVars, batchVars, ratingVars, strengthVars, nudgeVars,
    resolveVars, classifyVars, loadVars,
    jobVars, shutdownVars>>
offClassifyVars == <<gatewayVars, predictVars, batchVars, ratingVars, strengthVars, nudgeVars,
    resolveVars, fetchVars, loadVars,
    jobVars, shutdownVars>>
offLoadVars == <<gatewayVars, predictVars, batchVars, ratingVars, strengthVars, nudgeVars,
    resolveVars, fetchVars, classifyVars,
    jobVars, shutdownVars>>
offJobVars == <<gatewayVars, predictVars, batchVars, ratingVars, strengthVars, nudgeVars,
    resolveVars, fetchVars, classifyVars, loadVars, shutdownVars>>
offShutdownVars == <<predictVars, batchVars, ratingVars, strengthVars, nudgeVars, resolveVars,
    fetchVars, classifyVars, loadVars, jobVars>>

\* The two team records of a prediction and the slots of a roster.
MaxRoster == 2
Teams == {"team1", "team2"}
Slots == 1..MaxRoster

\* A team record without a players list (`!teamData.players`).
NoPlayersField == -1

\* The value predictWinProbability hands back: nothing yet, null, or a
\* prediction outcome with its confidence metrics and head-to-head note.
Returned(kind, total, withStats, h2hNote) ==
    [kind |-> kind, totalPlayers |-> total, playersWithStats |-> withStats, h2h |-> h2hNote]
NoPrediction == Returned("none", 0, 0, "none")

\* ------------------------------------------------------------------------
\* Numbers of the rating code. A JavaScript number is modelled in
\* thousandths (0.9 is 900, 50 is 50000); NaN is a number of its own that
\* every arithmetic operation and Math.min/Math.max propagate, and Absent is
\* a field that is undefined or not of type number.
\* ------------------------------------------------------------------------
NaN == -999999
Absent == -888888

\* typeof x === 'number'
IsNumber(x) == x # Absent

Max(a, b) == IF a >= b THEN a ELSE b
JsMin(a, b) == IF a = NaN \/ b = NaN THEN NaN ELSE Min(a, b)
JsMax(a, b) == IF a = NaN \/ b = NaN THEN NaN ELSE Max(a, b)
JsAdd(a, b) == IF a = NaN \/ b = NaN THEN NaN ELSE a + b
\* a / b and a * b of two numbers in thousandths, b > 0
\* (the quotient is cut off towards zero at the last thousandth)
Quot(a, b) == IF a >= 0 THEN a \div b ELSE 0 - ((0 - a) \div b)
JsDiv(a, b) == IF a = NaN \/ b = NaN THEN NaN ELSE Quot(a * 1000, b)
JsMul(a, b) == IF a = NaN \/ b = NaN THEN NaN ELSE Quot(a * b, 1000)
\* a / k for a count k
JsDivCount(a, k) == IF a = NaN THEN NaN ELSE Quot(a, k)

\* PLAYER_STATS_CONFIG and PLAYER_IMPACT_CONFIG
defaultPlayerRating == 900
kprBaseValue == 700
kprMaxMultiplier == 1500
headshotsBaseValue == 50000
headshotsMaxMultiplier == 1300
roundContributionBaseValue == 70000
roundContributionMaxMultiplier == 1300
mapsPlayedBaseValue == 50000
mapsPlayedMaxMultiplier == 1200
deathsPerRoundBaseValue == 700
deathsPerRoundMinMultiplier == 500
ratingMin == 500
ratingMax == 2000
Aspects == <<"fragging", "consistency", "impact", "survival">>
weights == [fragging |-> 300, consistency |-> 200, impact |-> 300, survival |-> 200]

\* The stats objects a rating is asked for: null, or an object in which
\* each sub-metric is absent, zero, an ordinary value, a value beyond its
\* cap, or NaN.
NullStats ==
    [isNull |-> TRUE, killsPerRound |-> Absent, headshots |-> Absent,
     roundsContributed |-> Absent, mapsPlayed |-> Absent, rating |-> Absent,
     deathsPerRound |-> Absent]
StatsObjects ==
    [isNull : {FALSE},
     killsPerRound : {Absent, 0, 700, NaN},
     headshots : {Absent, 0, 50000},
     roundsContributed : {Absent, 0, 70000},
     mapsPlayed : {Absent, 0, 100000},
     rating : {Absent, 0, 300, 1200, 2500, NaN},
     deathsPerRound : {Absent, 0, 700}]
StatsInputs == {NullStats} \cup StatsObjects

\* ------------------------------------------------------------------------
\* Values of calculateAveragePlayerStats
\* ------------------------------------------------------------------------
MaxPlayers == 3
PlayerSlots == 1..MaxPlayers

\* A stats object with the given rating and no other sub-metric.
RatingOnly(r) == [NullStats EXCEPT !.isNull = FALSE, !.rating = r]

\* What fetchPlayerStatsById can resolve with: null, stats with a rating,
\* stats whose rating is NaN, stats without a rating.
FetchedStats ==
    {NullStats, RatingOnly(1200), RatingOnly(1600), RatingOnly(NaN),
     [RatingOnly(Absent) EXCEPT !.killsPerRound = 700]}

\* What one player's fetch can do: reject, or resolve with one of these.
FetchResults ==
    {[rejected |-> TRUE, stats |-> NullStats]}
        \cup {[rejected |-> FALSE, stats |-> s] : s \in FetchedStats}
NoFetch == [rejected |-> FALSE, stats |-> NullStats]

\* An element of the array Promise.allSettled resolves with; before a
\* promise has settled its element has no value.
NoResult == [status |-> "none", value |-> NullStats]
PendingResult == [status |-> "pending", value |-> NullStats]
Fulfilled(s) == [status |-> "fulfilled", value |-> s]

\* ------------------------------------------------------------------------
\* Values of predictWinProbability's adjustments
\* ------------------------------------------------------------------------

\* PREDICTION_CONFIG.team and PREDICTION_CONFIG.h2h
ratingThreshold == 50
rankNudgeEffect == 20
rankScale == 1
minMatches == 3
maxEffect == 100
maxMapEffect == 80

\* The strength differences, the ranks (a rank is a number or missing) and
\* the head-to-head outcomes the adjustments are computed for.
MaxH2HMatches == 4
BaseDifferences == {0 - 60, 0 - 50, 0 - 49, 0, 49, 50, 60}
RankValues == {Absent, 1, 2, 40}
NoRecord(k) == [kind |-> k, team1Wins |-> 0, team2Wins |-> 0, totalMatches |-> 0]
H2HRecords ==
    {[kind |-> "record", team1Wins |-> w1, team2Wins |-> w2, totalMatches |-> n] :
        n \in 0..MaxH2HMatches, w1 \in 0..MaxH2HMatches, w2 \in 0..MaxH2HMatches}
\* MOCK_H2H_DATA, the records of the test-mode client.
RecordOf(w1, w2, n) == [kind |-> "record", team1Wins |-> w1, team2Wins |-> w2, totalMatches |-> n]
MOCK_H2H_DATA ==
    {RecordOf(5, 3, 8), RecordOf(2, 4, 6), RecordOf(6, 6, 12), RecordOf(1, 1, 2), RecordOf(0, 0, 0)}
H2HResults ==
    {NoRecord("throws"), NoRecord("null")}
        \cup {r \in H2HRecords : r.team1Wins + r.team2Wins <= r.totalMatches}
        \cup MOCK_H2H_DATA

\* ------------------------------------------------------------------------
\* Values of steps 5 and 6 of predictWinProbability: probabilities and
\* confidence levels are in millionths, penalty factors in hundredths,
\* quality scores and weights in thousandths.
\* ------------------------------------------------------------------------
One == 1000000

\* PREDICTION_CONFIG.probability
minProbability == 50000
maxProbability == 950000

\* DATA_QUALITY_CONFIG
thresholdsHigh == 800
thresholdsMedium == 500
minPlayersWithStats == 3
expectedDataPoints == 6
minTotalMatches == 2
minRecentMatches == 1
minMatchesForMapStats == 2
noPlayerStats == 40
insufficientH2H == 60
insufficientRecentH2H == 80
insufficientMapData == 90
missingRank == 95
defaultConfidence == 90
lowQualityCap == 40
qualityWeights == [playerStats |-> 400, h2h |-> 300, mapStats |-> 150, rank |-> 150]

\* confidenceMetrics
Metrics(total, withStats, detailed, h2h, recent, mapMatches, mapProvided, ranks) ==
    [totalPlayers |-> total, playersWithStats |-> withStats,
     detailedStatsCount |-> detailed, h2hMatches |-> h2h, recentH2HMatches |-> recent,
     mapSpecificMatches |-> mapMatches, mapNameProvided |-> mapProvided,
     hasValidRanks |-> ranks]

\* What calculateConfidenceLevel returns, with the weightedQualityScore it
\* logs.
ConfidenceResult(lvl, fs, q, sc) ==
    [level |-> lvl, factors |-> fs, qualityLevel |-> q, weightedQualityScore |-> sc]
NoConfidence == ConfidenceResult(0, <<>>, "none", 0)

Summary(avg, analyzed, missing) ==
    [averageRating |-> avg, playersAnalyzed |-> analyzed, playersMissingStats |-> missing]
NoSummary == [averageRating |-> 0, playersAnalyzed |-> 0 - 1, playersMissingStats |-> 0 - 1]

\* ------------------------------------------------------------------------
\* cacheManager
\* ------------------------------------------------------------------------

\* isBefore(new Date(timestamp), subHours(new Date(), cacheExpirationHours))
IsExpired(e) == e.age > cacheExpirationHours

\* A clearTimeout that leaves the pending timer running.
KeepTimeout(timers, handle) == timers

\* clearTimeout(saveCacheTimeout): drops the pending timer the handle names.
ClearTimeout(timers, handle) ==
    IF handle = "pending" /\ Len(timers) > 0
    THEN SubSeq(timers, 1, Len(timers) - 1)
    ELSE timers

\* saveCache(): (re)schedules the debounced write; nothing in test mode.
\* Returns the pair <<saveTimers, saveCacheTimeout>>.
SaveCache(timers, handle) ==
    IF isTestMode
    THEN <<timers, handle>>
    ELSE <<Append(ClearTimeout(timers, handle), saveDebounceMs), "pending">>

\* The entries pruneExpiredCacheEntries deletes from table c.
ExpiredIn(c) ==
    IF isTestMode \/ cacheExpirationHours <= 0
    THEN {}
    ELSE {p \in Players : c[p].present /\ IsExpired(c[p])}

\* pruneExpiredCacheEntries(): the table after the deletions.
PruneExpired(c) == [p \in Players |-> IF p \in ExpiredIn(c) THEN NoEntry ELSE c[p]]

\* pruneExpiredCacheEntries() ends with saveCache() when it deleted something.
PruneSave(c, timers, handle) ==
    IF ExpiredIn(c) # {} THEN SaveCache(timers, handle) ELSE <<timers, handle>>

\* A getFromCache that never looks at the timestamp.
GetFromCacheNoExpiry(p) ==
    IF playerStatsCache[p].present THEN "found" ELSE "absent"

\* getFromCache(playerId): "expired" (entry deleted, save scheduled),
\* "absent", or "found" (the entry's stats are returned).
GetFromCache(p) ==
    LET e == playerStatsCache[p] IN
    IF ~e.present THEN "absent"
    ELSE IF ~isTestMode /\ cacheExpirationHours > 0 /\ IsExpired(e) THEN "expired"
    ELSE "found"

\* A lookup that takes any entry with stats, whatever its age.
IsEntryWithStats(p) == playerStatsCache[p].present /\ playerStatsCache[p].stats # "null"

\* A lookup that also counts a request in flight for the same id as a hit.
IsCacheHitOrInFlight(p) ==
    \/ GetFromCache(p) = "found" /\ playerStatsCache[p].stats # "null"
    \/ \E u \in Tasks : player[u] = p /\ pc[u] \in {"delay", "queued", "inflight", "backoff"}

\* fetchPlayerStatsById: `if (cachedData)` -- what counts as a cache hit.
IsCacheHit(p) == GetFromCache(p) = "found" /\ playerStatsCache[p].stats # "null"

\* updateCache(playerId, stats): the new table.
UpdateCache(c, p, stats) ==
    [c EXCEPT ![p] = [present |-> TRUE, stats |-> stats, age |-> 0]]

\* ------------------------------------------------------------------------
\* Initial state: the module has been imported, nothing is initialised.
\* ------------------------------------------------------------------------
FreshEntry(s) == [present |-> TRUE, stats |-> s, age |-> 0]
ExpiredEntry(s) == [present |-> TRUE, stats |-> s, age |-> AgeCap]

\* Cache files found at start-up: per player no entry, a fresh entry
\* (stats or a known miss) or an entry older than the expiration.
InitFiles ==
    [Players -> {NoEntry, FreshEntry("S"), FreshEntry("null"), ExpiredEntry("S")}]

EmptyTable == [p \in Players |-> NoEntry]

NothingStarted ==
    /\ exited = FALSE
    /\ isTestMode \in BOOLEAN
    /\ playerStatsCache = EmptyTable
    /\ saveTimers = <<>>
    /\ saveCacheTimeout = "undefined"
    /\ syncSave = "none"
    /\ activeCount = 0
    /\ queue = <<>>
    /\ pc = [t \in Tasks |-> "idle"]
    /\ player = [t \in Tasks |-> H2H]
    /\ attempt = [t \in Tasks |-> 0]
    /\ timer = [t \in Tasks |-> 0]
    /\ result = [t \in Tasks |-> "none"]
    /\ upstreamCalls = [t \in Tasks |-> 0]
    /\ lastOutcome = [t \in Tasks |-> "none"]
    /\ sinceLastEnd = delayBetweenCalls
    /\ phase = "idle"
    /\ roster = [tm \in Teams |-> 0]
    /\ hasValidRanks = FALSE
    /\ fetched = [tm \in Teams |-> [i \in Slots |-> "none"]]
    /\ prediction = NoPrediction
    /\ runPhase = "idle"
    /\ numMatches = 0
    /\ track = FALSE
    /\ visited = <<>>
    /\ successCount = 0
    /\ failCount = 0
    /\ predictions = 0
    /\ strengthPhase = "idle"
    /\ players = 0
    /\ planned = [i \in PlayerSlots |-> NoFetch]
    /\ results = [i \in PlayerSlots |-> NoResult]
    /\ completion = <<>>
    /\ summary = NoSummary

InitCommon == isInitialized = FALSE /\ NothingStarted

\* No rating has been asked for.
NoRating ==
    /\ playerStats = NullStats
    /\ ratingDone = FALSE
    /\ playerRating = 0

\* number.toFixed(3) of a number in thousandths: sign, whole part and the
\* three decimals.
ToFixed3(x) ==
    [negative |-> x < 0,
     whole |-> (IF x < 0 THEN 0 - x ELSE x) \div 1000,
     decimals |-> (IF x < 0 THEN 0 - x ELSE x) % 1000]

\* The values interpolated into `H2HNudge: ${h2hNudge.toFixed(3)}
\* (${team1Wins}-${team2Wins} in ${totalMatches})`; none before the entry
\* is written.
NoteOf(nudge, w1, w2, n) ==
    [written |-> TRUE, value |-> ToFixed3(nudge), team1Wins |-> w1, team2Wins |-> w2,
     totalMatches |-> n]
NoNote ==
    [written |-> FALSE, value |-> ToFixed3(0), team1Wins |-> 0, team2Wins |-> 0,
     totalMatches |-> 0]

\* The adjustments before anything was added: two teams of equal strength
\* without ranks.
NoNudges ==
    /\ nudgePhase = "rank"
    /\ rankNudge = 0
    /\ h2hNudge = 0
    /\ h2hEntry = NoNote
    /\ effectiveDifference = baseDifference
    /\ adjustments = <<>>
    /\ mapNudge = 0
NoAdjustmentInputs ==
    /\ mapName = FALSE
    /\ baseDifference = 0
    /\ teamRanks = [team1 |-> Absent, team2 |-> Absent]
    /\ h2hResults = NoRecord("null")

\* Steps 5 and 6 have not run; the inputs are a tie without any data.
NotResolved ==
    /\ resolveDone = FALSE
    /\ team1Prob = 0
    /\ team2Prob = 0
    /\ confidence = NoConfidence
NoResolveInputs ==
    /\ finalDifference = 0
    /\ metrics = Metrics(0, 0, 0, 0, 0, 0, FALSE, FALSE)

\* The numeric player ids of the upstream source.
NumIds == 2
PlayerIds == 1..NumIds

\* No player's stats have been asked for: nothing is cached and the
\* upstream source has nothing.
NotFetched == fetchReturn = "none"
NoFetchInputs ==
    /\ fetchId = 1
    /\ statsCache = [i \in PlayerIds |-> "absent"]
    /\ response = "empty"

\* An error as _isTransientError reads it: null/undefined, or an object
\* with a code, a status and a message, each of which may be absent.  A
\* message is the sequence of its characters.
NoCode == "undefined"
ErrorOf(c, st, defined, text) ==
    [isNull |-> FALSE, code |-> c, status |-> st,
     message |-> [defined |-> defined, text |-> text]]
NullError ==
    [isNull |-> TRUE, code |-> NoCode, status |-> Absent,
     message |-> [defined |-> FALSE, text |-> <<>>]]

\* No error has been classified.
NotClassified == transient = "none"
NoError == error = NullError

\* What loadCache finds at the cache file's path: no file, text that is
\* not JSON, JSON that is not a list of [number, object] pairs, or such a
\* list, given by the kind of value it holds for each player id.
MissingFile == [kind |-> "missing", entries |-> [i \in PlayerIds |-> "absent"]]
EmptyMap == [i \in PlayerIds |-> "absent"]

\* loadCache has not been called: the Map initializeCache created.
NotLoaded ==
    /\ loadDone = FALSE
    /\ loadSave = FALSE
    /\ loadedCache = EmptyMap
NoLoadFile == loadFile = MissingFile

\* The scheduler's jobs: the daily prediction job and the retry job (the
\* results job makes no predictions).
Jobs == {"predictionJob", "retryJob"}

\* The matches getMatches lists for today.
MaxTodaysMatches == 2
TodaysMatches == 1..MaxTodaysMatches

\* No scheduler job has fired and no prediction is stored.
NoJobs ==
    /\ jobPos = [j \in Jobs |-> 0]
    /\ stores = [i \in TodaysMatches |-> 0]

\* The scheduler has not been started and no signal has arrived.
NotShutDown ==
    /\ cronJobs = 0
    /\ shutdownLog = <<>>

\* Nothing is fetched, classified or loaded on its own.
NoCalls ==
    /\ NoFetchInputs /\ NotFetched
    /\ NoError /\ NotClassified
    /\ NoLoadFile /\ NotLoaded
    /\ NoJobs /\ NotShutDown

\* The gateway starts without a cache file ("No cache file found").
Init ==
    /\ InitCommon /\ cacheFile = EmptyTable /\ NoRating /\ NoAdjustmentInputs /\ NoNudges
    /\ NoResolveInputs /\ NotResolved /\ NoCalls

\* The cache manager starts from any of the cache files.
PersistInit ==
    /\ InitCommon /\ cacheFile \in InitFiles /\ NoRating /\ NoAdjustmentInputs /\ NoNudges
    /\ NoResolveInputs /\ NotResolved /\ NoCalls

\* initialize(): initCacheManager, pLimit, loadCache (skipped in test mode;
\* otherwise the file's entries, pruned), then isInitialized = true.
Initialize ==
    /\ ~isInitialized /\ ~exited
    /\ isInitialized' = TRUE
    /\ IF isTestMode
       THEN UNCHANGED <<playerStatsCache, saveTimers, saveCacheTimeout>>
       ELSE /\ playerStatsCache' = PruneExpired(cacheFile)
            /\ saveTimers' = PruneSave(cacheFile, saveTimers, saveCacheTimeout)[1]
            /\ saveCacheTimeout' = PruneSave(cacheFile, saveTimers, saveCacheTimeout)[2]
    /\ UNCHANGED <<exited, isTestMode, cacheFile, syncSave, limiterVars, taskVars, sinceLastEnd>>
    /\ UNCHANGED offGatewayVars


\* ------------------------------------------------------------------------
\* hltvClient: _retryableRequest and the API functions built on it
\* ------------------------------------------------------------------------

\* _isTransientError(error)
IsTransientError(o) == o = "transient"

\* The catch block of _retryableRequest: retry only a transient error, and
\* only while attempts remain.
ShouldRetry(o, k) == IsTransientError(o) /\ k # retryAttempts

\* A backoff that does not grow with the attempt number.
ConstantBackoff(k) == retryDelay

\* delay(config.api.retryDelay * attempt)
BackoffDelay(k) == retryDelay * k

\* A limiter that admits every operation.
LimitAdmitsAll(active) == TRUE

\* p-limit: a new operation runs at once only while a slot is free.
LimitAdmits(active) == active < maxConcurrentRequests

\* A limiter that keeps the slot of a settled operation.
KeepSlot(active) == active

\* p-limit's next(): the slot count once an operation has settled.
ReleaseSlot(active) == active - 1

\* A fetchPlayerStatsById without the rating check.
UnvalidatedStats(o) == IF o \in {"stats", "badRating"} THEN "S" ELSE "null"

\* fetchPlayerStatsById after _retryableRequest returned a value: what is
\* cached and returned (`!stats`, then the rating's typeof/isNaN check).
ValidatedStats(o) == IF o = "stats" THEN "S" ELSE "null"

\* fetchPlayerStatsById's catch block: `return null`.
FetchErrorResult == "null"

\* getHeadToHeadResults: the tallied record, or the default record when the
\* response is no array or the request failed.
H2HResult(o) == IF o = "stats" THEN "record" ELSE "default"

IsFailure(o) == o \in {"transient", "permanent"}

\* The entry a call finds that is inside the expiration window ("none" if
\* there is no such entry).
LiveEntry(p) ==
    LET e == playerStatsCache[p] IN
    IF e.present /\ ~IsExpired(e) THEN e.stats ELSE "none"

\* fetchPlayerStatsById(playerId) / getHeadToHeadResults(...) up to their
\* first suspension: the cache lookup, then attempt 1 of _retryableRequest,
\* which waits delayBetweenCalls.  Tasks are interchangeable call slots; a
\* new call takes the lowest idle one.
Call(t, p) ==
    /\ isInitialized /\ ~exited
    /\ pc[t] = "idle"
    /\ \A u \in Tasks : u < t => pc[u] # "idle"
    /\ player' = [player EXCEPT ![t] = p]
    /\ upstreamCalls' = [upstreamCalls EXCEPT ![t] = 0]
    /\ lastOutcome' = [lastOutcome EXCEPT ![t] = "none"]
    /\ IF p # H2H /\ IsCacheHit(p)
       THEN /\ pc' = [pc EXCEPT ![t] = "done"]
            /\ result' = [result EXCEPT ![t] = playerStatsCache[p].stats]
            /\ attempt' = [attempt EXCEPT ![t] = 0]
            /\ timer' = [timer EXCEPT ![t] = 0]
       ELSE /\ pc' = [pc EXCEPT ![t] = "delay"]
            /\ result' = [result EXCEPT ![t] = "none"]
            /\ attempt' = [attempt EXCEPT ![t] = 1]
            /\ timer' = [timer EXCEPT ![t] = delayBetweenCalls]
    /\ IF p # H2H /\ GetFromCache(p) = "expired"
       THEN /\ playerStatsCache' = [playerStatsCache EXCEPT ![p] = NoEntry]
            /\ saveTimers' = SaveCache(saveTimers, saveCacheTimeout)[1]
            /\ saveCacheTimeout' = SaveCache(saveTimers, saveCacheTimeout)[2]
       ELSE UNCHANGED <<playerStatsCache, saveTimers, saveCacheTimeout>>
    /\ UNCHANGED <<isInitialized, exited, isTestMode, syncSave, cacheFile, limiterVars, sinceLastEnd>>
    /\ UNCHANGED offGatewayVars

\* The retry backoff has elapsed: go on to the delay before the call.
WakeBackoff(t) ==
    /\ ~exited
    /\ pc[t] = "backoff" /\ timer[t] = 0
    /\ pc' = [pc EXCEPT ![t] = "delay"]
    /\ timer' = [timer EXCEPT ![t] = delayBetweenCalls]
    /\ UNCHANGED <<isInitialized, exited, isTestMode, syncSave, cacheVars, limiterVars,
                   player, attempt, result, upstreamCalls, lastOutcome, sinceLastEnd>>
    /\ UNCHANGED offGatewayVars

\* delay(delayBetweenCalls) has elapsed: limit(() => operation()) runs the
\* operation at once if a slot is free and queues it otherwise.
WakeDelay(t) ==
    /\ ~exited
    /\ pc[t] = "delay" /\ timer[t] = 0
    /\ IF LimitAdmits(activeCount)
       THEN /\ pc' = [pc EXCEPT ![t] = "inflight"]
            /\ activeCount' = activeCount + 1
            /\ upstreamCalls' = [upstreamCalls EXCEPT ![t] = @ + 1]
            /\ UNCHANGED queue
       ELSE /\ pc' = [pc EXCEPT ![t] = "queued"]
            /\ queue' = Append(queue, t)
            /\ UNCHANGED <<activeCount, upstreamCalls>>
    /\ UNCHANGED <<isInitialized, exited, isTestMode, syncSave, cacheVars, player, attempt,
                   timer, result, lastOutcome, sinceLastEnd>>
    /\ UNCHANGED offGatewayVars

\* The upstream call of task t settles with outcome o.  p-limit releases the
\* slot and starts the head of its queue; the task either finishes (caching
\* what it got, or null after a failure) or goes into the backoff of its
\* next attempt.
Complete(t, o) ==
    /\ ~exited
    /\ pc[t] = "inflight"
    /\ LET released == ReleaseSlot(activeCount)
           starts == Len(queue) > 0 /\ LimitAdmits(released)
           h == IF starts THEN Head(queue) ELSE t
           retry == IsFailure(o) /\ ShouldRetry(o, attempt[t])
           stored == IF IsFailure(o) THEN "null" ELSE ValidatedStats(o)
           returned == IF player[t] = H2H THEN H2HResult(o)
                       ELSE IF IsFailure(o) THEN FetchErrorResult
                       ELSE ValidatedStats(o)
           caches == ~retry /\ player[t] # H2H
       IN
       /\ activeCount' = IF starts THEN released + 1 ELSE released
       /\ queue' = IF starts THEN Tail(queue) ELSE queue
       /\ pc' = [x \in Tasks |->
                   IF x = t THEN (IF retry THEN "backoff" ELSE "done")
                   ELSE IF starts /\ x = h THEN "inflight"
                   ELSE pc[x]]
       /\ upstreamCalls' = [x \in Tasks |->
                   IF starts /\ x = h THEN upstreamCalls[x] + 1
                   ELSE IF x = t /\ ~retry THEN 0
                   ELSE upstreamCalls[x]]
       /\ attempt' = [attempt EXCEPT ![t] = IF retry THEN @ + 1 ELSE 0]
       /\ timer' = [timer EXCEPT ![t] = IF retry THEN BackoffDelay(attempt[t] + 1) ELSE 0]
       /\ result' = [result EXCEPT ![t] = IF retry THEN "none" ELSE returned]
       /\ lastOutcome' = [lastOutcome EXCEPT ![t] = o]
       /\ IF caches
          THEN /\ playerStatsCache' = UpdateCache(playerStatsCache, player[t], stored)
               /\ saveTimers' = SaveCache(saveTimers, saveCacheTimeout)[1]
               /\ saveCacheTimeout' = SaveCache(saveTimers, saveCacheTimeout)[2]
          ELSE UNCHANGED <<playerStatsCache, saveTimers, saveCacheTimeout>>
    /\ sinceLastEnd' = 0
    /\ UNCHANGED <<isInitialized, exited, isTestMode, syncSave, cacheFile, player>>
    /\ UNCHANGED offGatewayVars

\* The caller takes the result; the task can make another call.
Return(t) ==
    /\ ~exited
    /\ pc[t] = "done"
    /\ pc' = [pc EXCEPT ![t] = "idle"]
    /\ result' = [result EXCEPT ![t] = "none"]
    /\ lastOutcome' = [lastOutcome EXCEPT ![t] = "none"]
    /\ player' = [player EXCEPT ![t] = H2H]
    /\ UNCHANGED <<isInitialized, exited, isTestMode, syncSave, cacheVars, limiterVars, attempt,
                   timer, upstreamCalls, sinceLastEnd>>
    /\ UNCHANGED offGatewayVars


\* ------------------------------------------------------------------------
\* Time, the debounced save, shutdown
\* ------------------------------------------------------------------------
Dec(n) == IF n > 0 THEN n - 1 ELSE 0
AgeTable(c) == [p \in Players |->
                  IF c[p].present THEN [c[p] EXCEPT !.age = Min(@ + 1, AgeCap)] ELSE c[p]]

\* One tick of time passes.
Tick ==
    /\ isInitialized /\ ~exited
    /\ timer' = [t \in Tasks |-> Dec(timer[t])]
    /\ saveTimers' = [i \in 1..Len(saveTimers) |-> Dec(saveTimers[i])]
    /\ playerStatsCache' = AgeTable(playerStatsCache)
    /\ cacheFile' = AgeTable(cacheFile)
    /\ sinceLastEnd' = Min(sinceLastEnd + 1, delayBetweenCalls)
    /\ UNCHANGED <<isInitialized, exited, isTestMode, syncSave, saveCacheTimeout, limiterVars,
                   pc, player, attempt, result, upstreamCalls, lastOutcome>>
    /\ UNCHANGED offGatewayVars

RemoveAt(seq, i) == SubSeq(seq, 1, i - 1) \o SubSeq(seq, i + 1, Len(seq))

\* writeFile / writeFileSync of the table c: the file afterwards.  A failed
\* write is caught and logged and leaves the file as it was.
WriteFile(c, ok) == IF ok THEN c ELSE cacheFile

\* The debounce timer i fires: _saveCacheToFile() prunes (scheduling a new
\* save if it deleted something) and writes the table.
SaveTimerFire(i, ok) ==
    /\ ~exited
    /\ i \in 1..Len(saveTimers) /\ saveTimers[i] = 0
    /\ LET rest == RemoveAt(saveTimers, i)
           handle == IF saveCacheTimeout = "pending" /\ i = Len(saveTimers)
                     THEN "stale" ELSE saveCacheTimeout
           sched == PruneSave(playerStatsCache, rest, handle)
       IN
       /\ playerStatsCache' = PruneExpired(playerStatsCache)
       /\ saveTimers' = sched[1]
       /\ saveCacheTimeout' = sched[2]
       /\ cacheFile' = WriteFile(PruneExpired(playerStatsCache), ok)
    /\ UNCHANGED <<isInitialized, exited, isTestMode, syncSave, limiterVars, taskVars, sinceLastEnd>>
    /\ UNCHANGED offGatewayVars

\* saveCacheSync() on the state st = <<cache, file, timers, handle>>.
SaveCacheSync(st, ok) ==
    IF isTestMode
    THEN st
    ELSE LET cleared == ClearTimeout(st[3], st[4])
             handle == IF st[4] = "pending" THEN "stale" ELSE st[4]
             sched == PruneSave(st[1], cleared, handle)
         IN <<PruneExpired(st[1]),
              IF ok THEN PruneExpired(st[1]) ELSE st[2],
              sched[1], sched[2]>>

\* The ways the process ends that have a handler.
ExitCauses == {"exit", "SIGTERM", "SIGINT", "uncaughtException", "unhandledRejection"}

\* Exit handlers that do not save.
NoExitHandlers(c, st, ok1, ok2) == st

\* What the handlers of cause c do to the cache state before the process
\* is gone: the signal and error handlers call saveCacheSync() and then
\* process.exit(), whose 'exit' handler calls saveCacheSync() again.
ExitHandlers(c, st, ok1, ok2) ==
    IF ~isInitialized THEN st
    ELSE IF c = "exit" THEN SaveCacheSync(st, ok2)
    ELSE SaveCacheSync(SaveCacheSync(st, ok1), ok2)

\* What the exit handlers logged about the synchronous save: skipped (not
\* initialised, or test mode), saved (a write went through), or error.
SyncSaveLog(c, ok1, ok2) ==
    IF ~isInitialized \/ isTestMode THEN "skipped"
    ELSE IF (c # "exit" /\ ok1) \/ ok2 THEN "saved"
    ELSE "error"

Shutdown(c, ok1, ok2) ==
    /\ ~exited
    /\ exited' = TRUE
    /\ syncSave' = SyncSaveLog(c, ok1, ok2)
    /\ LET st == ExitHandlers(c, <<playerStatsCache, cacheFile, saveTimers,
                                    saveCacheTimeout>>, ok1, ok2)
       IN /\ playerStatsCache' = st[1]
          /\ cacheFile' = st[2]
          /\ saveTimers' = st[3]
          /\ saveCacheTimeout' = st[4]
    /\ UNCHANGED <<isInitialized, isTestMode, limiterVars, taskVars, sinceLastEnd>>
    /\ UNCHANGED offGatewayVars

\* The cache manager's exported functions, called by any client of it.
CacheGet(p) ==
    /\ isInitialized /\ ~exited
    /\ IF GetFromCache(p) = "expired"
       THEN /\ playerStatsCache' = [playerStatsCache EXCEPT ![p] = NoEntry]
            /\ saveTimers' = SaveCache(saveTimers, saveCacheTimeout)[1]
            /\ saveCacheTimeout' = SaveCache(saveTimers, saveCacheTimeout)[2]
       ELSE UNCHANGED <<playerStatsCache, saveTimers, saveCacheTimeout>>
    /\ UNCHANGED <<isInitialized, exited, isTestMode, syncSave, cacheFile, limiterVars, taskVars,
                   sinceLastEnd>>
    /\ UNCHANGED offGatewayVars

CacheUpdate(p, stats) ==
    /\ isInitialized /\ ~exited
    /\ playerStatsCache' = UpdateCache(playerStatsCache, p, stats)
    /\ saveTimers' = SaveCache(saveTimers, saveCacheTimeout)[1]
    /\ saveCacheTimeout' = SaveCache(saveTimers, saveCacheTimeout)[2]
    /\ UNCHANGED <<isInitialized, exited, isTestMode, syncSave, cacheFile, limiterVars, taskVars,
                   sinceLastEnd>>
    /\ UNCHANGED offGatewayVars

\* The gateway: concurrent API calls through the limiter and the cache.
Next ==
    \/ Initialize
    \/ \E t \in Tasks, p \in Targets : Call(t, p)
    \/ \E t \in Tasks : WakeBackoff(t)
    \/ \E t \in Tasks : WakeDelay(t)
    \/ \E t \in Tasks, o \in Outcomes : Complete(t, o)
    \/ \E t \in Tasks : Return(t)
    \/ Tick

Spec == Init /\ [][Next]_vars

\* The cache manager and the process's exit handlers.
PersistNext ==
    \/ Initialize
    \/ \E p \in Players : CacheGet(p)
    \/ \E p \in Players, s \in {"S", "null"} : CacheUpdate(p, s)
    \/ Tick
    \/ \E i \in 1..Len(saveTimers), ok \in BOOLEAN : SaveTimerFire(i, ok)
    \/ \E c \in ExitCauses, ok1 \in BOOLEAN, ok2 \in BOOLEAN : Shutdown(c, ok1, ok2)

PersistSpec == PersistInit /\ [][PersistNext]_vars

\* ------------------------------------------------------------------------
\* The scoring pipeline: predictWinProbability over any client
\* ------------------------------------------------------------------------

\* What client.fetchPlayerStatsById can do for one player: resolve with
\* stats, with null, with stats whose rating is no number, or reject.
FetchOutcomes == {"stats", "null", "invalid", "rejected"}

\* What client.getHeadToHeadResults can do: throw, resolve with null, with
\* an empty record, or with a record of enough matches.
H2HOutcomes == {"throws", "null", "empty", "record"}

\* The .catch on each statsPromise: a rejection becomes null.
CatchFetchError(o) == IF o = "rejected" THEN "null" ELSE o

\* `stats && typeof stats.rating === 'number' && !isNaN(stats.rating)`
HasValidRating(v) == v = "stats"

\* The players whose stats a team's strength is computed from; none when
\* the record has no players list or an empty one.
RosterSlots(n) == {i \in Slots : i <= n}

\* calculateAveragePlayerStats' summary for a team, from the settled fetches.
PlayersAnalyzed(n) == Cardinality(RosterSlots(n))
PlayersMissingStats(f, n) == Cardinality({i \in RosterSlots(n) : ~HasValidRating(f[i])})

AllSettled(f) == \A tm \in Teams, i \in Slots : f[tm][i] # "pending"

\* A head-to-head fetch that is not guarded by its own try/catch.
H2HUnguarded(o) ==
    IF o = "throws" THEN "thrown"
    ELSE IF o = "record" THEN "H2HNudge: Applied"
    ELSE "H2HNudge: Skipped"

\* The head-to-head step inside its own try/catch: the note it pushes to
\* the adjustments (an error of the fetch is caught and noted).
H2HNudge(o) ==
    IF o = "throws" THEN "H2HNudge: Error"
    ELSE IF o = "record" THEN "H2HNudge: Applied"
    ELSE "H2HNudge: Skipped"

\* The return value: the outcome object, or null from the outer catch when
\* an error ("thrown") reached it.
PredictionResult(f, r, h2hNote) ==
    IF h2hNote = "thrown"
    THEN Returned("null", 0, 0, "none")
    ELSE Returned("outcome",
                  PlayersAnalyzed(r["team1"]) + PlayersAnalyzed(r["team2"]),
                  (PlayersAnalyzed(r["team1"]) - PlayersMissingStats(f["team1"], r["team1"]))
                    + (PlayersAnalyzed(r["team2"]) - PlayersMissingStats(f["team2"], r["team2"])),
                  h2hNote)

\* predictWinProbability(team1Data, team2Data, client) up to its first
\* suspension: both teams' player fetches are issued at once.
Predict(r, ranks) ==
    /\ phase = "idle"
    /\ roster' = r
    /\ hasValidRanks' = ranks
    /\ fetched' = [tm \in Teams |-> [i \in Slots |->
                      IF i \in RosterSlots(r[tm]) THEN "pending" ELSE "none"]]
    /\ phase' = IF AllSettled(fetched') THEN "h2h" ELSE "strength"
    /\ prediction' = NoPrediction
    /\ UNCHANGED offPredictVars

\* One player fetch settles; when it was the last one, Promise.all resolves
\* and the head-to-head request is made.
FetchSettles(tm, i, o) ==
    /\ phase = "strength"
    /\ fetched[tm][i] = "pending"
    /\ fetched' = [fetched EXCEPT ![tm][i] = CatchFetchError(o)]
    /\ phase' = IF AllSettled(fetched') THEN "h2h" ELSE "strength"
    /\ UNCHANGED <<roster, hasValidRanks, prediction>>
    /\ UNCHANGED offPredictVars

\* The head-to-head request settles and the function returns.
H2HSettles(o) ==
    /\ phase = "h2h"
    /\ phase' = "returned"
    /\ prediction' = PredictionResult(fetched, roster, H2HNudge(o))
    /\ UNCHANGED <<roster, hasValidRanks, fetched>>
    /\ UNCHANGED offPredictVars

\* The caller takes the prediction.
Collect ==
    /\ phase = "returned"
    /\ phase' = "idle"
    /\ roster' = [tm \in Teams |-> 0]
    /\ hasValidRanks' = FALSE
    /\ fetched' = [tm \in Teams |-> [i \in Slots |-> "none"]]
    /\ prediction' = NoPrediction
    /\ UNCHANGED offPredictVars

PredictNext ==
    \/ \E r \in [Teams -> {NoPlayersField} \cup (0..MaxRoster)], ranks \in BOOLEAN :
          Predict(r, ranks)
    \/ \E tm \in Teams, i \in Slots, o \in FetchOutcomes : FetchSettles(tm, i, o)
    \/ \E o \in H2HOutcomes : H2HSettles(o)
    \/ Collect

PredictSpec == Init /\ [][PredictNext]_vars

\* ------------------------------------------------------------------------
\* Properties of the gateway
\* ------------------------------------------------------------------------

\* Steps of one task, read off the change of its pc.
CallStep(t) == pc[t] = "idle" /\ pc'[t] # "idle"
FetchCallStep(t, p) == CallStep(t) /\ player'[t] = p
SettleStep(t) == pc[t] = "inflight" /\ pc'[t] # "inflight"
StartStep(t) == pc[t] # "inflight" /\ pc'[t] = "inflight"
InFlight == {t \in Tasks : pc[t] = "inflight"}

\* C1: a fetchPlayerStatsById call that finds a non-expired entry for its id
\* returns the entry's stored stats, null included, and issues no upstream
\* call (it is done in the same step, no request is started or scheduled).
C1_CachedEntryIsReturned ==
    [][\A t \in Tasks, p \in Players :
          FetchCallStep(t, p) /\ LiveEntry(p) # "none"
             => /\ pc'[t] = "done"
                /\ result'[t] = LiveEntry(p)
                /\ attempt'[t] = 0]_vars

\* C2: fetchPlayerStatsById never throws; when its last upstream call failed
\* (retries exhausted, or a non-transient error) or returned no or invalid
\* data, it returns null and the cache holds a new entry with null stats.
C2_FailureDegradesToNull ==
    /\ [](\A t \in Tasks : result[t] # "threw")
    /\ [][\A t \in Tasks, p \in Players :
             SettleStep(t) /\ pc'[t] = "done" /\ player[t] = p /\ lastOutcome'[t] # "stats"
                => /\ result'[t] = "null"
                   /\ playerStatsCache'[p] = FreshEntry("null")]_vars

C2_Witness ==
    \E t \in Tasks :
        /\ pc[t] = "done" /\ player[t] \in Players
        /\ lastOutcome[t] = "transient"
        /\ result[t] = "null"
        /\ playerStatsCache[player[t]] = FreshEntry("null")

\* C3: a permanent failure ends the fetch without another attempt; a
\* transient failure is retried until retryAttempts upstream calls have been
\* made; one fetch has its attempts one after the other (attempt k is the
\* k-th upstream call, started only after call k-1 settled); and attempt
\* k >= 2 starts with a backoff timer of retryDelay * k that only the
\* passing of time runs down.
C3_RetryDiscipline ==
    /\ [](\A t \in Tasks :
            /\ attempt[t] <= retryAttempts
            /\ pc[t] = "inflight" => upstreamCalls[t] = attempt[t]
            /\ pc[t] \in {"backoff", "delay", "queued"} => upstreamCalls[t] = attempt[t] - 1)
    /\ [][\A t \in Tasks :
            /\ SettleStep(t) /\ lastOutcome'[t] = "permanent" => pc'[t] = "done"
            /\ SettleStep(t) /\ lastOutcome'[t] = "transient"
                 => IF upstreamCalls[t] = retryAttempts
                    THEN pc'[t] = "done"
                    ELSE /\ pc'[t] = "backoff"
                         /\ attempt'[t] = upstreamCalls[t] + 1
                         /\ timer'[t] = retryDelay * attempt'[t]
            /\ pc[t] = "backoff" /\ pc'[t] = "backoff" => timer'[t] >= timer[t] - 1
            /\ pc[t] = "backoff" /\ pc'[t] # "backoff" => timer[t] = 0 /\ pc'[t] = "delay"
            /\ pc[t] # "delay" /\ pc'[t] = "delay" /\ attempt'[t] >= 2 => pc[t] = "backoff"
            /\ StartStep(t) => pc[t] \in {"delay", "queued"}]_vars

C3_Witness ==
    \E t \in Tasks :
        /\ pc[t] = "backoff"
        /\ attempt[t] = retryAttempts
        /\ upstreamCalls[t] = retryAttempts - 1
        /\ timer[t] = retryDelay * retryAttempts
        /\ lastOutcome[t] = "transient"

\* C4: the upstream calls in flight never number more than
\* maxConcurrentRequests, whatever requests (player fetches, head-to-head)
\* run at once; the limiter's count is the number in flight.
C4_InFlightBounded ==
    /\ Cardinality(InFlight) <= maxConcurrentRequests
    /\ activeCount = Cardinality(InFlight)

C4_Witness ==
    \E t, u \in Tasks :
        /\ pc[t] = "inflight" /\ player[t] \in Players
        /\ pc[u] = "queued" /\ player[u] = H2H
        /\ queue = <<u>>

\* C5: with limiter width 1, an upstream call starts no sooner than
\* delayBetweenCalls after the previous upstream call ended.
C5_CallsAreSpaced ==
    [][\A t \in Tasks :
          StartStep(t) /\ maxConcurrentRequests = 1
             => sinceLastEnd' >= delayBetweenCalls]_vars

\* C6 as stated: a call that finds an entry older than the expiration
\* treats it as a miss, removes it, and goes on to the upstream source.
C6_ExpiredNeverHit ==
    [][\A t \in Tasks, p \in Players :
          FetchCallStep(t, p) /\ playerStatsCache[p].present /\ IsExpired(playerStatsCache[p])
             => /\ pc'[t] = "delay"
                /\ ~playerStatsCache'[p].present]_vars

\* C6, amended: outside test mode and with a positive cacheExpirationHours,
\* a call that finds an entry older than the expiration treats it as a
\* miss, removes it, and goes on to the upstream source.
C6_ExpiredNeverHitOutsideTestMode ==
    [][\A t \in Tasks, p \in Players :
          (/\ ~isTestMode /\ cacheExpirationHours > 0
           /\ FetchCallStep(t, p)
           /\ playerStatsCache[p].present /\ IsExpired(playerStatsCache[p]))
             => /\ pc'[t] = "delay"
                /\ attempt'[t] = 1
                /\ ~playerStatsCache'[p].present]_vars

\* An expired entry was just found and removed: the call waits for its
\* first attempt and the removal has scheduled a save.
C6_Witness ==
    \E t \in Tasks :
        /\ ~isTestMode
        /\ pc[t] = "delay" /\ attempt[t] = 1 /\ timer[t] = delayBetweenCalls
        /\ player[t] \in Players
        /\ ~playerStatsCache[player[t]].present
        /\ saveTimers = <<saveDebounceMs>>
        /\ \A u \in Tasks : u # t => pc[u] = "idle"

\* ------------------------------------------------------------------------
\* Properties of the persisted cache
\* ------------------------------------------------------------------------

\* The process exits in this step.
ExitStep == ~exited /\ exited'

\* A cache mutation of a running, initialised process: updateCache set an
\* entry, or an expired entry was removed.
MutationStep ==
    /\ isInitialized /\ ~exited'
    /\ \E p \in Players :
          \/ playerStatsCache'[p] = FreshEntry(playerStatsCache'[p].stats)
             /\ playerStatsCache'[p] # playerStatsCache[p]
          \/ playerStatsCache[p].present /\ ~playerStatsCache'[p].present

\* The cache file is written in this step (its entries change otherwise
\* than by growing older).
FileWriteStep == cacheFile' # cacheFile /\ cacheFile' # AgeTable(cacheFile)

C8_EveryMutationSchedulesSave ==
    /\ [](Len(saveTimers) <= 1)
    /\ [][/\ MutationStep
             => saveTimers' = <<saveDebounceMs>> /\ saveCacheTimeout' = "pending"
          /\ FileWriteStep /\ ~ExitStep
             => saveTimers # <<>> /\ saveTimers[1] = 0]_vars

\* C8, amended: outside test mode, every cache mutation leaves exactly one
\* save timer pending, set to the full debounce (a pending one is replaced);
\* never is more than one pending; updateCache itself writes nothing; and
\* the file is written only by a timer whose debounce has run out.
C8_MutationSchedulesSaveOutsideTestMode ==
    /\ [](Len(saveTimers) <= 1)
    /\ [][/\ MutationStep /\ ~isTestMode
             => saveTimers' = <<saveDebounceMs>> /\ saveCacheTimeout' = "pending"
          /\ MutationStep /\ playerStatsCache' # PruneExpired(playerStatsCache)
             => cacheFile' = cacheFile
          /\ FileWriteStep /\ ~ExitStep
             => saveTimers # <<>> /\ saveTimers[1] = 0]_vars

\* A mutation has just replaced nothing or a pending timer: the entry is
\* new, the file does not have it yet, one timer is pending.
C8_Witness ==
    /\ ~isTestMode /\ ~exited
    /\ saveTimers = <<saveDebounceMs>> /\ saveCacheTimeout = "pending"
    /\ \E p \in Players :
          /\ playerStatsCache[p] = FreshEntry("S")
          /\ cacheFile[p] = FreshEntry("null")

\* ------------------------------------------------------------------------
\* Termination of a call
\* ------------------------------------------------------------------------

\* The next step of the call in task t: a timer that has run out resumes
\* it, or its upstream call settles.
Resume(t) == WakeBackoff(t) \/ WakeDelay(t) \/ \E o \in Outcomes : Complete(t, o)

\* Time passes, upstream calls settle (hltv's requestTimeout bounds each),
\* and the event loop runs every continuation that is ready.
FairSpec ==
    /\ Spec
    /\ WF_vars(Tick)
    /\ \A t \in Tasks : WF_vars(Resume(t))

\* C9: every call that has started eventually returns, a player fetch with
\* stats or null; it makes at most retryAttempts upstream calls; and a
\* settled upstream call, successful or failed, has given its slot back.
C9_EveryCallReturns ==
    /\ \A t \in Tasks : (pc[t] # "idle") ~> (pc[t] = "done")
    /\ [](\A t \in Tasks :
            /\ upstreamCalls[t] <= retryAttempts
            /\ pc[t] = "done" /\ player[t] \in Players => result[t] \in {"S", "null"})
    /\ [][\A t \in Tasks :
            SettleStep(t) => activeCount' = Cardinality({u \in Tasks : pc'[u] = "inflight"})]_vars

\* Both calls have returned, one after a failed upstream call, the other
\* with stats.
C9_Witness ==
    \E t, u \in Tasks :
        /\ pc[t] = "done" /\ lastOutcome[t] = "permanent" /\ result[t] = "null"
        /\ pc[u] = "done" /\ lastOutcome[u] = "stats" /\ result[u] = "S"
        /\ activeCount = 0

\* ------------------------------------------------------------------------
\* Properties of the scoring pipeline
\* ------------------------------------------------------------------------

\* C10: whatever the player fetches and the head-to-head fetch do,
\* predictWinProbability returns a prediction outcome, never null, and the
\* outcome counts every player of both rosters.
C10_PredictionIsTotal ==
    /\ prediction.kind \in {"none", "outcome"}
    /\ phase = "returned"
          => /\ prediction.kind = "outcome"
             /\ prediction.totalPlayers
                   = PlayersAnalyzed(roster["team1"]) + PlayersAnalyzed(roster["team2"])
             /\ prediction.playersWithStats <= prediction.totalPlayers

\* Every player fetch of two full rosters came back without stats and the
\* head-to-head fetch threw; an outcome was returned all the same.
C10_Witness ==
    /\ phase = "returned"
    /\ \A tm \in Teams : roster[tm] = MaxRoster
    /\ \A tm \in Teams, i \in Slots : fetched[tm][i] = "null"
    /\ prediction.kind = "outcome"
    /\ prediction.playersWithStats = 0
    /\ prediction.h2h = "H2HNudge: Error"

\* ---------------------------------------------------------------------------
\* runPredictions (src/core/main.js): the batch loop over the day's matches.
\* The awaits of one iteration (the two team fetches, the prediction, the
\* optional storage) are the points where the run is suspended; their
\* outcomes are inputs.
\* ---------------------------------------------------------------------------
MaxMatches == 3
MatchIndexes == 1..MaxMatches

TeamFetchOutcomes == {"rejects", "nullTeam", "teams"}
PredictOutcomes == {"throws", "null", "prediction"}

\* A loop that gave up at the first failed match instead of `continue`.
BreakOnFailure(failed) == IF failed THEN "finished" ELSE "loop"

\* Every failure branch of the loop body ends in `continue` (or falls off the
\* end of the catch block): the loop goes on to the next match.
ContinueLoop(failed) == "loop"

\* const matches = await getTodaysMatches(); a null or empty list, or a
\* rejected fetch, returns [] before the loop.
RunPredictions(n, tr) ==
    /\ runPhase = "idle"
    /\ numMatches' = n
    /\ track' = tr
    /\ runPhase' = IF n = 0 THEN "finished" ELSE "loop"
    /\ UNCHANGED <<visited, successCount, failCount, predictions>>
    /\ UNCHANGED offBatchVars

\* for (const match of matches): the next match in list order; a match
\* without both team names is counted as failed and skipped.
NextMatch(hasNames) ==
    /\ runPhase = "loop"
    /\ Len(visited) < numMatches
    /\ visited' = Append(visited, Len(visited) + 1)
    /\ IF hasNames
       THEN /\ runPhase' = "teams"
            /\ UNCHANGED failCount
       ELSE /\ failCount' = failCount + 1
            /\ runPhase' = ContinueLoop(TRUE)
    /\ UNCHANGED <<numMatches, track, successCount, predictions>>
    /\ UNCHANGED offBatchVars

\* await Promise.all([getTeamDetails(team1), getTeamDetails(team2)]).
TeamsSettle(o) ==
    /\ runPhase = "teams"
    /\ IF o = "teams"
       THEN /\ runPhase' = "predict"
            /\ UNCHANGED failCount
       ELSE /\ failCount' = failCount + 1
            /\ runPhase' = ContinueLoop(TRUE)
    /\ UNCHANGED <<numMatches, track, visited, successCount, predictions>>
    /\ UNCHANGED offBatchVars

\* await predictWinProbability(...): a result is pushed before it is stored.
PredictSettles(o) ==
    /\ runPhase = "predict"
    /\ IF o = "prediction"
       THEN /\ predictions' = predictions + 1
            /\ IF track
               THEN /\ runPhase' = "store"
                    /\ UNCHANGED <<successCount, failCount>>
               ELSE /\ successCount' = successCount + 1
                    /\ runPhase' = ContinueLoop(FALSE)
                    /\ UNCHANGED failCount
       ELSE /\ failCount' = failCount + 1
            /\ runPhase' = ContinueLoop(TRUE)
            /\ UNCHANGED <<successCount, predictions>>
    /\ UNCHANGED <<numMatches, track, visited>>
    /\ UNCHANGED offBatchVars

\* if (track) await storePrediction(...): a rejection lands in the catch.
StoreSettles(ok) ==
    /\ runPhase = "store"
    /\ IF ok
       THEN /\ successCount' = successCount + 1
            /\ UNCHANGED failCount
       ELSE /\ failCount' = failCount + 1
            /\ UNCHANGED successCount
    /\ runPhase' = ContinueLoop(~ok)
    /\ UNCHANGED <<numMatches, track, visited, predictions>>
    /\ UNCHANGED offBatchVars

\* The loop is exhausted: the summary is logged and predictions returned.
FinishRun ==
    /\ runPhase = "loop"
    /\ Len(visited) = numMatches
    /\ runPhase' = "finished"
    /\ UNCHANGED <<numMatches, track, visited, successCount, failCount, predictions>>
    /\ UNCHANGED offBatchVars

BatchNext ==
    \/ \E n \in 0..MaxMatches, tr \in BOOLEAN : RunPredictions(n, tr)
    \/ \E hasNames \in BOOLEAN : NextMatch(hasNames)
    \/ \E o \in TeamFetchOutcomes : TeamsSettle(o)
    \/ \E o \in PredictOutcomes : PredictSettles(o)
    \/ \E ok \in BOOLEAN : StoreSettles(ok)
    \/ FinishRun

BatchSpec == Init /\ [][BatchNext]_vars

\* The matches the loop has finished with (the one in hand is not counted).
MatchesDone ==
    IF runPhase \in {"teams", "predict", "store"} THEN Len(visited) - 1 ELSE Len(visited)

\* C11: runPredictions takes the fetched matches up one at a time in list
\* order, no failure of one match ends the batch, and at every point
\* successCount + failCount is the number of matches dealt with, so that the
\* finished run has successCount + failCount = matches.length.
C11_BatchIsNeverInterrupted ==
    /\ \A i \in 1..Len(visited) : visited[i] = i
    /\ Len(visited) <= numMatches
    /\ successCount + failCount = MatchesDone
    /\ runPhase = "finished" =>
          /\ Len(visited) = numMatches
          /\ successCount + failCount = numMatches

\* A finished run over a full list in which a match failed and a later
\* match still succeeded.
C11_Witness ==
    /\ runPhase = "finished"
    /\ numMatches = MaxMatches
    /\ failCount >= 1
    /\ successCount >= 1
    /\ predictions > successCount

\* ---------------------------------------------------------------------------
\* playerStrength.js: calculatePlayerImpactScores and
\* calculateWeightedPlayerRating
\* ---------------------------------------------------------------------------

\* Math.min(value / baseValue, maxMultiplier) of a sub-metric that is a
\* number; nothing is added for one that is not.
Normalized(v, base, cap) == IF IsNumber(v) THEN JsMin(JsDiv(v, base), cap) ELSE 0
Used(v) == IF IsNumber(v) THEN 1 ELSE 0

\* scores.x /= scores.factorsUsed.x, when a factor was used
AverageOfUsed(sum, used) == IF used > 0 THEN JsDivCount(sum, used) ELSE sum

\* calculatePlayerImpactScores(stats), for stats that is not null
CalculatePlayerImpactScores(s) ==
    [fragging |->
        AverageOfUsed(
            JsAdd(Normalized(s.killsPerRound, kprBaseValue, kprMaxMultiplier),
                  Normalized(s.headshots, headshotsBaseValue, headshotsMaxMultiplier)),
            Used(s.killsPerRound) + Used(s.headshots)),
     consistency |->
        AverageOfUsed(
            JsAdd(Normalized(s.roundsContributed, roundContributionBaseValue,
                             roundContributionMaxMultiplier),
                  Normalized(s.mapsPlayed, mapsPlayedBaseValue, mapsPlayedMaxMultiplier)),
            Used(s.roundsContributed) + Used(s.mapsPlayed)),
     impact |-> IF IsNumber(s.rating) THEN s.rating ELSE 0,
     survival |->
        IF IsNumber(s.deathsPerRound)
        THEN JsMax(JsAdd(1000, IF JsDiv(s.deathsPerRound, deathsPerRoundBaseValue) = NaN
                               THEN NaN
                               ELSE 0 - JsDiv(s.deathsPerRound, deathsPerRoundBaseValue)),
                   deathsPerRoundMinMultiplier)
        ELSE 0,
     factorsUsed |->
        [fragging |-> Used(s.killsPerRound) + Used(s.headshots),
         consistency |-> Used(s.roundsContributed) + Used(s.mapsPlayed),
         impact |-> Used(s.rating),
         survival |-> Used(s.deathsPerRound)]]

\* An aspect enters the average whenever one of its sub-metrics was present.
AspectHasData(scores, aspect) == scores.factorsUsed[aspect] > 0

\* `impactScores[aspect] !== undefined && impactScores[aspect] !== 0`
AspectCounts(scores, aspect) == scores[aspect] # 0

\* The forEach over Object.entries(weights), aspect k onwards:
\* <<weightedSum, totalWeight>>.
RECURSIVE WeightedSums(_, _)
WeightedSums(scores, k) ==
    IF k > Len(Aspects) THEN <<0, 0>>
    ELSE LET rest == WeightedSums(scores, k + 1)
             a == Aspects[k]
         IN IF AspectCounts(scores, a)
            THEN <<JsAdd(JsMul(scores[a], weights[a]), rest[1]), weights[a] + rest[2]>>
            ELSE rest

\* A rating that is 0 when no weight was applied.
FinalRatingNoDefault(weightedSum, totalWeight) ==
    IF totalWeight > 0 THEN JsDiv(weightedSum, totalWeight) ELSE 0

\* finalRating before the clamp: the default unless a weight was applied.
FinalRating(weightedSum, totalWeight) ==
    IF totalWeight > 0 THEN JsDiv(weightedSum, totalWeight) ELSE defaultPlayerRating

\* Math.max(rating.min, Math.min(finalRating, rating.max))
ClampRating(r) == JsMax(ratingMin, JsMin(r, ratingMax))

\* calculateWeightedPlayerRating(stats)
CalculateWeightedPlayerRating(s) ==
    IF s.isNull THEN defaultPlayerRating
    ELSE LET sums == WeightedSums(CalculatePlayerImpactScores(s), 1)
         IN ClampRating(FinalRating(sums[1], sums[2]))

\* One call of calculateWeightedPlayerRating.
RatePlayer ==
    /\ ~ratingDone
    /\ playerRating' = CalculateWeightedPlayerRating(playerStats)
    /\ ratingDone' = TRUE
    /\ UNCHANGED playerStats
    /\ UNCHANGED offRatingVars

RatingInit ==
    /\ InitCommon
    /\ NoCalls
    /\ cacheFile = EmptyTable
    /\ playerStats \in StatsInputs
    /\ ratingDone = FALSE
    /\ playerRating = 0
    /\ NoAdjustmentInputs
    /\ NoNudges
    /\ NoResolveInputs
    /\ NotResolved

RatingNext == RatePlayer

RatingSpec == RatingInit /\ [][RatingNext]_vars

SubMetrics ==
    {"killsPerRound", "headshots", "roundsContributed", "mapsPlayed", "rating",
     "deathsPerRound"}

\* C12: for stats of any values, calculateWeightedPlayerRating returns a
\* number in the closed interval [rating.min, rating.max] = [0.5, 2.0].
C12_RatingInRange ==
    ratingDone => (ratingMin <= playerRating /\ playerRating <= ratingMax)

\* C13: when rating is the only sub-metric that is populated, the returned
\* rating is clamp(rating, 0.5, 2.0).
C13_RatingOnlyIsClamped ==
    (/\ ratingDone
     /\ ~playerStats.isNull
     /\ IsNumber(playerStats.rating)
     /\ \A f \in SubMetrics \ {"rating"} : ~IsNumber(playerStats[f]))
    => playerRating = ClampRating(playerStats.rating)

\* The weighted average over exactly the aspects that had a sub-metric.
RECURSIVE SumsOverAspectsWithData(_, _)
SumsOverAspectsWithData(scores, k) ==
    IF k > Len(Aspects) THEN <<0, 0>>
    ELSE LET rest == SumsOverAspectsWithData(scores, k + 1)
             a == Aspects[k]
         IN IF AspectHasData(scores, a)
            THEN <<JsAdd(JsMul(scores[a], weights[a]), rest[1]), weights[a] + rest[2]>>
            ELSE rest

\* C14: an aspect enters the weighted average exactly when at least one of
\* its sub-metrics was present, whatever it scored: the result is the
\* clamped sum of score * weight over those aspects divided by the sum of
\* their weights.
C14_AspectsWithDataAreAveraged ==
    (/\ ratingDone
     /\ ~playerStats.isNull
     /\ \E f \in SubMetrics : IsNumber(playerStats[f]))
    => LET sums == SumsOverAspectsWithData(CalculatePlayerImpactScores(playerStats), 1)
       IN playerRating = ClampRating(JsDiv(sums[1], sums[2]))

\* C15: calculateWeightedPlayerRating returns the default rating 0.9 for
\* null stats and for a stats object none of whose sub-metrics is present.
C15_DefaultWithoutData ==
    (/\ ratingDone
     /\ \A f \in SubMetrics : ~IsNumber(playerStats[f]))
    => playerRating = defaultPlayerRating

\* The rating of a stats object (not null) without any sub-metric.
C15_Witness ==
    /\ ratingDone
    /\ ~playerStats.isNull
    /\ \A f \in SubMetrics : ~IsNumber(playerStats[f])
    /\ playerRating = defaultPlayerRating

\* ---------------------------------------------------------------------------
\* playerStrength.js: calculateAveragePlayerStats
\* ---------------------------------------------------------------------------

\* The .catch on a statsPromise: a rejected fetch resolves with null.
CatchStatsError(r) == IF r.rejected THEN NullStats ELSE r.stats

\* A validity test that only asks for a stats object.
HasStatsObject(s) == ~s.isNull

\* `stats && typeof stats.rating === 'number' && !isNaN(stats.rating)`
HasValidStats(s) == ~s.isNull /\ IsNumber(s.rating) /\ s.rating # NaN

\* What results.forEach adds to totalRatingSum for one element.
RatingOf(res) ==
    IF res.status = "fulfilled" /\ HasValidStats(res.value)
    THEN CalculateWeightedPlayerRating(res.value)
    ELSE defaultPlayerRating

\* totalRatingSum after the first k elements, added up in index order.
RECURSIVE TotalRatingSum(_, _)
TotalRatingSum(res, k) ==
    IF k = 0 THEN 0 ELSE JsAdd(TotalRatingSum(res, k - 1), RatingOf(res[k]))

\* playersMissingStats after forEach over the first n elements.
MissingCount(res, n) ==
    Cardinality({i \in 1..n : ~(res[i].status = "fulfilled" /\ HasValidStats(res[i].value))})

\* An average over the players that had stats only.
DivideByPlayersWithStats(n, missing) == IF n - missing > 0 THEN n - missing ELSE n

\* const totalPlayers = players.length: the divisor of the average.
TotalPlayers(n, missing) == n

\* The summary computed from the results array of n players.
Summarise(res, n) ==
    Summary(JsDivCount(TotalRatingSum(res, n), TotalPlayers(n, MissingCount(res, n))),
            n, MissingCount(res, n))

\* A wait that ends with the first settled promise.
AnySettled(res, n) == \E i \in 1..n : res[i].status # "pending"

\* await Promise.allSettled(statsPromises) resumes when every one settled.
AllPlayersSettled(res, n) == \A i \in 1..n : res[i].status # "pending"

\* calculateAveragePlayerStats(players, fetchPlayerStatsById): without
\* players it returns the default at once; otherwise every player's fetch
\* is issued and the call waits.
CalculateAveragePlayerStats(n, plan) ==
    /\ strengthPhase = "idle"
    /\ players' = n
    /\ planned' = plan
    /\ completion' = <<>>
    /\ IF n <= 0
       THEN /\ results' = [i \in PlayerSlots |-> NoResult]
            /\ summary' = Summary(defaultPlayerRating, 0, 0)
            /\ strengthPhase' = "returned"
       ELSE /\ results' = [i \in PlayerSlots |-> IF i <= n THEN PendingResult ELSE NoResult]
            /\ summary' = NoSummary
            /\ strengthPhase' = "fetching"
    /\ UNCHANGED offStrengthVars

\* Player i's fetch settles; Promise.allSettled files the value under the
\* player's index. When it was the last one the summary is computed.
PlayerFetchSettles(i) ==
    /\ strengthPhase = "fetching"
    /\ i <= players
    /\ results[i].status = "pending"
    /\ results' = [results EXCEPT ![i] = Fulfilled(CatchStatsError(planned[i]))]
    /\ completion' = Append(completion, i)
    /\ IF AllPlayersSettled(results', players)
       THEN /\ summary' = Summarise(results', players)
            /\ strengthPhase' = "returned"
       ELSE UNCHANGED <<summary, strengthPhase>>
    /\ UNCHANGED <<players, planned>>
    /\ UNCHANGED offStrengthVars

\* The rosters and fetch behaviours a call is made with (players beyond the
\* roster have no fetch).
FetchPlans(n) ==
    {plan \in [PlayerSlots -> FetchResults \cup {NoFetch}] :
        \A i \in PlayerSlots : IF i <= n THEN plan[i] \in FetchResults ELSE plan[i] = NoFetch}

StrengthNext ==
    \/ \E n \in {NoPlayersField} \cup (0..MaxPlayers) : \E plan \in FetchPlans(n) :
          CalculateAveragePlayerStats(n, plan)
    \/ \E i \in PlayerSlots : PlayerFetchSettles(i)

StrengthSpec == Init /\ [][StrengthNext]_vars

\* The players of the roster whose fetch rejected, yielded null, or yielded
\* stats without a valid numeric rating.
MissingPlayers ==
    {i \in 1..players :
        \/ planned[i].rejected
        \/ planned[i].stats.isNull
        \/ planned[i].stats.rating \in {Absent, NaN}}

\* C16: the summary has playersAnalyzed equal to the roster length and
\* playersMissingStats <= playersAnalyzed, playersMissingStats being the
\* number of players whose fetch yielded null, rejected, or yielded stats
\* without a valid numeric rating; without players the summary is the
\* default rating with both counts 0.
C16_CountsOfTheSummary ==
    strengthPhase = "returned" =>
        IF players <= 0
        THEN summary = Summary(defaultPlayerRating, 0, 0)
        ELSE /\ summary.playersAnalyzed = players
             /\ summary.playersMissingStats <= summary.playersAnalyzed
             /\ summary.playersMissingStats = Cardinality(MissingPlayers)

\* A full roster with a rejected fetch, a null, stats with an invalid
\* rating and hence fewer players with stats than analysed.
C16_Witness ==
    /\ strengthPhase = "returned"
    /\ players = MaxPlayers
    /\ \E i, j \in 1..players :
          /\ planned[i].rejected
          /\ ~planned[j].rejected /\ ~planned[j].stats.isNull /\ planned[j].stats.rating = NaN
    /\ summary.playersMissingStats = 2
    /\ summary.playersAnalyzed = MaxPlayers

\* The rating a player contributes: the player's weighted rating, or the
\* default when the player is counted as missing.
RECURSIVE SumOfPlayerRatings(_)
SumOfPlayerRatings(k) ==
    IF k = 0 THEN 0
    ELSE JsAdd(SumOfPlayerRatings(k - 1),
               IF k \in MissingPlayers THEN defaultPlayerRating
               ELSE CalculateWeightedPlayerRating(planned[k].stats))

\* C17: for a non-empty roster averageRating is the sum of the per-player
\* ratings, the default standing in for every missing player, divided by
\* the full roster length.
C17_AverageOverFullRoster ==
    (strengthPhase = "returned" /\ players > 0) =>
        summary.averageRating = JsDivCount(SumOfPlayerRatings(players), players)

\* A roster in which a player is missing and another has a rating other
\* than the default.
C17_Witness ==
    /\ strengthPhase = "returned"
    /\ players > 1
    /\ MissingPlayers # {}
    /\ \E i \in 1..players : i \notin MissingPlayers
    /\ summary.averageRating # defaultPlayerRating

\* The summary of the planned fetch results, taken in roster order.
SummaryOfPlan ==
    Summarise([i \in PlayerSlots |->
                  IF i <= players THEN Fulfilled(CatchStatsError(planned[i])) ELSE NoResult],
              players)

\* C18: the summary does not depend on the order in which the per-player
\* fetches complete: whatever the completion order, it is the summary of
\* the fetch results in roster order.
C18_CompletionOrderIsIrrelevant ==
    (strengthPhase = "returned" /\ players > 0) =>
        /\ Len(completion) = players
        /\ summary = SummaryOfPlan

\* The fetches of a roster of players with different results completed in
\* the reverse of the roster order.
C18_Witness ==
    /\ strengthPhase = "returned"
    /\ players = MaxPlayers
    /\ \A k \in 1..players : completion[k] = players + 1 - k
    /\ \A i, j \in 1..players : i # j => planned[i] # planned[j]
    /\ summary.averageRating # defaultPlayerRating

\* ---------------------------------------------------------------------------
\* strengthCalculator.js: the rank nudge and the head-to-head nudge of
\* predictWinProbability
\* ---------------------------------------------------------------------------
Abs(x) == IF x >= 0 THEN x ELSE 0 - x

\* A tie test that also takes a difference equal to the threshold.
WithinOrAtThreshold(d) == Abs(d) <= ratingThreshold

\* Math.abs(baseDifference) < ratingThreshold
WithinThreshold(d) == Abs(d) < ratingThreshold

\* confidenceMetrics.hasValidRanks
HasValidRanks(rk) == IsNumber(rk.team1) /\ IsNumber(rk.team2)

\* A rank nudge of the full configured magnitude for the better-ranked team.
FullRankNudge(rk) ==
    IF rk.team2 > rk.team1 THEN rankNudgeEffect
    ELSE IF rk.team2 < rk.team1 THEN 0 - rankNudgeEffect
    ELSE 0

\* Math.max(-rankNudgeEffect, Math.min(rankNudgeEffect, rankDifference * 0.001))
RankNudgeValue(rk) ==
    JsMax(0 - rankNudgeEffect, JsMin(rankNudgeEffect, (rk.team2 - rk.team1) * rankScale))

\* Step 2 of predictWinProbability: <<rankNudge, the note pushed>>.
RankNudge(d, rk) ==
    IF WithinThreshold(d) /\ HasValidRanks(rk) THEN <<RankNudgeValue(rk), "RankNudge: Applied">>
    ELSE IF WithinThreshold(d) THEN <<0, "RankNudge: Skipped (Missing Ranks)">>
    ELSE <<0, "none">>

\* A head-to-head test that takes any record with a match.
AnyMatches(h) == h.kind = "record" /\ h.totalMatches > 0

\* h2hResults && h2hResults.totalMatches >= h2hConfig.minMatches
EnoughMatches(h) == h.kind = "record" /\ h.totalMatches >= minMatches

\* winRateDiff = team1Wins / totalMatches - team2Wins / totalMatches
WinRateDiff(h) ==
    JsDiv(h.team1Wins * 1000, h.totalMatches * 1000)
        - JsDiv(h.team2Wins * 1000, h.totalMatches * 1000)

\* A head-to-head nudge without the clamp.
UnclampedH2HNudge(h) == JsMul(WinRateDiff(h), maxEffect * 2)

\* Math.max(-maxEffect, Math.min(maxEffect, winRateDiff * maxEffect * 2))
H2HNudgeValue(h) ==
    JsMax(0 - maxEffect, JsMin(maxEffect, JsMul(WinRateDiff(h), maxEffect * 2)))

\* An entry that shows the win-rate differential in place of the nudge.
NoteOfDifferential(h) ==
    IF h.kind # "throws" /\ EnoughMatches(h) /\ h.totalMatches > 0
    THEN NoteOf(WinRateDiff(h), h.team1Wins, h.team2Wins, h.totalMatches)
    ELSE NoNote

\* The values of the entry step 3 pushes when it applies the nudge.
HeadToHeadNote(h) ==
    IF h.kind # "throws" /\ EnoughMatches(h) /\ h.totalMatches > 0
    THEN NoteOf(H2HNudgeValue(h), h.team1Wins, h.team2Wins, h.totalMatches)
    ELSE NoNote

\* Step 3 of predictWinProbability inside its try/catch:
\* <<h2hNudge, the note pushed>>.
HeadToHeadNudge(h) ==
    IF h.kind = "throws" THEN <<0, "H2HNudge: Error">>
    ELSE IF EnoughMatches(h)
         THEN IF h.totalMatches > 0
              THEN <<H2HNudgeValue(h), "H2HNudge: Applied">>
              ELSE <<0, "none">>
         ELSE <<0, "H2HNudge: Skipped">>

\* A log that puts the newest note first.
PrependNote(adj, note) == IF note = "none" THEN adj ELSE <<note>> \o adj

\* adjustments.push(note), for a stage that notes something
PushNote(adj, note) == IF note = "none" THEN adj ELSE Append(adj, note)

\* A map stage that notes its skip for every prediction.
MapNudgeAlwaysNoted(requested) == <<0, "MapNudge: Skipped (Not Implemented)">>

\* Step 4 of predictWinProbability, a placeholder: <<mapNudge, the note
\* pushed>>; nothing is added to effectiveDifference.
MapNudge(requested) ==
    IF requested /\ maxMapEffect > 0
    THEN <<0, "MapNudge: Skipped (Not Implemented)">>
    ELSE <<0, "none">>

\* The rank nudge is added to effectiveDifference and the head-to-head
\* request is made.
ApplyRankNudge ==
    /\ nudgePhase = "rank"
    /\ rankNudge' = RankNudge(baseDifference, teamRanks)[1]
    /\ effectiveDifference' = baseDifference + RankNudge(baseDifference, teamRanks)[1]
    /\ adjustments' = PushNote(adjustments, RankNudge(baseDifference, teamRanks)[2])
    /\ nudgePhase' = "h2h"
    /\ UNCHANGED <<baseDifference, teamRanks, h2hResults, h2hNudge, h2hEntry, mapName, mapNudge>>
    /\ UNCHANGED offNudgeVars

\* The head-to-head request settles and its nudge is added; the map stage
\* follows in the same turn.
ApplyH2HNudge ==
    /\ nudgePhase = "h2h"
    /\ h2hNudge' = HeadToHeadNudge(h2hResults)[1]
    /\ h2hEntry' = HeadToHeadNote(h2hResults)
    /\ mapNudge' = MapNudge(mapName)[1]
    /\ effectiveDifference' = effectiveDifference + HeadToHeadNudge(h2hResults)[1]
    /\ adjustments' = PushNote(PushNote(adjustments, HeadToHeadNudge(h2hResults)[2]),
                               MapNudge(mapName)[2])
    /\ nudgePhase' = "done"
    /\ UNCHANGED <<baseDifference, teamRanks, h2hResults, rankNudge, mapName>>
    /\ UNCHANGED offNudgeVars

NudgeInit ==
    /\ InitCommon
    /\ NoCalls
    /\ cacheFile = EmptyTable
    /\ NoRating
    /\ baseDifference \in BaseDifferences
    /\ teamRanks \in [team1 : RankValues, team2 : RankValues]
    /\ h2hResults \in H2HResults
    /\ mapName \in BOOLEAN
    /\ NoNudges
    /\ NoResolveInputs
    /\ NotResolved

NudgeNext == ApplyRankNudge \/ ApplyH2HNudge

NudgeSpec == NudgeInit /\ [][NudgeNext]_vars

Clamp(x, lo, hi) == IF x < lo THEN lo ELSE IF x > hi THEN hi ELSE x
Sign(x) == IF x > 0 THEN 1 ELSE IF x < 0 THEN 0 - 1 ELSE 0
RankNudgeApplied == \E k \in 1..Len(adjustments) : adjustments[k] = "RankNudge: Applied"
H2HNudgeApplied == \E k \in 1..Len(adjustments) : adjustments[k] = "H2HNudge: Applied"

\* C19: the rank nudge is applied exactly when |baseDifference| <
\* ratingThreshold and both ranks are numbers; applied, it is
\* clamp((rank2 - rank1) * scale, -rankNudgeEffect, +rankNudgeEffect),
\* positive when team1 has the lower rank number and never larger in
\* magnitude than rankNudgeEffect; not applied, it contributes 0.
C19_RankNudge ==
    nudgePhase # "rank" =>
        /\ RankNudgeApplied <=>
              (/\ 0 - ratingThreshold < baseDifference
               /\ baseDifference < ratingThreshold
               /\ teamRanks.team1 # Absent
               /\ teamRanks.team2 # Absent)
        /\ RankNudgeApplied =>
              /\ rankNudge = Clamp((teamRanks.team2 - teamRanks.team1) * rankScale,
                                   0 - rankNudgeEffect, rankNudgeEffect)
              /\ teamRanks.team1 < teamRanks.team2 => rankNudge > 0
              /\ Abs(rankNudge) <= rankNudgeEffect
        /\ ~RankNudgeApplied => rankNudge = 0
        /\ nudgePhase = "h2h" => effectiveDifference = baseDifference + rankNudge

\* Two teams within the threshold, team1 ranked far better: the nudge is
\* applied and capped.
C19_Witness ==
    /\ nudgePhase = "h2h"
    /\ baseDifference = 49
    /\ teamRanks.team1 = 1
    /\ teamRanks.team2 = 40
    /\ RankNudgeApplied
    /\ rankNudge = rankNudgeEffect

NotesOf(kinds) == {k \in 1..Len(adjustments) : adjustments[k] \in kinds}
RankNotes == {"RankNudge: Applied", "RankNudge: Skipped (Missing Ranks)"}
H2HNotes == {"H2HNudge: Applied", "H2HNudge: Skipped", "H2HNudge: Error"}
MapNotes == {"MapNudge: Skipped (Not Implemented)"}

C22_OneEntryPerStageInOrder ==
    nudgePhase = "done" =>
        /\ Cardinality(NotesOf(RankNotes)) = 1
        /\ Cardinality(NotesOf(H2HNotes)) = 1
        /\ \A i \in NotesOf(RankNotes), j \in NotesOf(H2HNotes) : i < j

C22_EntriesInStageOrder ==
    nudgePhase = "done" =>
        /\ Cardinality(NotesOf(RankNotes)) = IF WithinThreshold(baseDifference) THEN 1 ELSE 0
        /\ Cardinality(NotesOf(H2HNotes)) = 1
        /\ Cardinality(NotesOf(MapNotes)) = IF mapName THEN 1 ELSE 0
        /\ NotesOf(RankNotes \cup H2HNotes \cup MapNotes) = 1..Len(adjustments)
        /\ \A i \in NotesOf(RankNotes), j \in NotesOf(H2HNotes) : i < j
        /\ \A i \in NotesOf(H2HNotes), j \in NotesOf(MapNotes) : i < j

\* All three stages noted their decision: ranks missing, the head-to-head
\* fetch failed, the map stage skipped.
C22_Witness ==
    /\ nudgePhase = "done"
    /\ adjustments = <<"RankNudge: Skipped (Missing Ranks)", "H2HNudge: Error",
                       "MapNudge: Skipped (Not Implemented)">>

\* ---------------------------------------------------------------------------
\* strengthCalculator.js, steps 5 and 6 of predictWinProbability: the
\* logistic probability with its clamp, and calculateConfidenceLevel
\* (confidenceCalculator.js)
\* ---------------------------------------------------------------------------
JsSub(a, b) == IF a = NaN \/ b = NaN THEN NaN ELSE a - b

\* x * pct / 100, for a factor in hundredths
Scale(x, pct) == Quot(x * pct, 100)

\* 1 / (1 + Math.exp(-scalingFactor * d)) with scalingFactor = 10, at the
\* differences (in thousandths) the probabilities are resolved for; the
\* value at -d is 1 minus the value at d, and exp overflows to Infinity
\* for the largest difference.
LogisticSamples ==
    <<[d |-> 0, p |-> 500000], [d |-> 1, p |-> 502500], [d |-> 20, p |-> 549834],
      [d |-> 100, p |-> 731059], [d |-> 294, p |-> 949789],
      [d |-> 295, p |-> 950263], [d |-> 300, p |-> 952574], [d |-> 1500, p |-> 999999],
      [d |-> 100000, p |-> 1000000]>>
SampledDifferences == {LogisticSamples[k].d : k \in 1..Len(LogisticSamples)}
FinalDifferences == {NaN} \cup SampledDifferences \cup {0 - d : d \in SampledDifferences}
LogisticAt(d) ==
    LET k == CHOOSE j \in 1..Len(LogisticSamples) : LogisticSamples[j].d = Abs(d)
    IN IF d >= 0 THEN LogisticSamples[k].p ELSE One - LogisticSamples[k].p
Logistic(d) == IF d = NaN THEN NaN ELSE LogisticAt(d)

\* Math.max(minProb, Math.min(maxProb, team1Prob))
ClampProbability(p) == JsMax(minProbability, JsMin(maxProbability, p))

\* A second probability that is clamped on its own.
ClampedComplement(p) == ClampProbability(JsSub(One, p))

\* clampedTeam2Prob = 1 - clampedTeam1Prob
Complement(p) == JsSub(One, p)

\* --- calculateConfidenceLevel(metrics) ---

\* A player-stats quality made of the basic ratio alone.
BasicRatioQuality(m) ==
    IF m.totalPlayers > 0
    THEN Quot(m.playersWithStats * 1000, m.totalPlayers)
    ELSE 0

\* playerStatsQuality = basicRatio * 0.5 + detailedRatio * 0.5
PlayerStatsQuality(m) ==
    IF m.totalPlayers > 0
    THEN LET basicRatio == Quot(m.playersWithStats * 1000, m.totalPlayers)
             maxPossibleDetailedPoints == m.totalPlayers * expectedDataPoints
             detailedRatio ==
                 IF maxPossibleDetailedPoints > 0
                 THEN Quot(m.detailedStatsCount * 1000, maxPossibleDetailedPoints)
                 ELSE 0
         IN Quot(basicRatio * 500, 1000) + Quot(detailedRatio * 500, 1000)
    ELSE 0

TotalMet(m) == m.h2hMatches >= minTotalMatches
RecentMet(m) == m.recentH2HMatches >= minRecentMatches
MapMet(m) == m.mapSpecificMatches >= minMatchesForMapStats

\* h2hQuality = (totalMet ? 0.6 : 0) + (recentMet ? 0.4 : 0)
H2HQuality(m) ==
    IF minTotalMatches > 0
    THEN (IF TotalMet(m) THEN 600 ELSE 0) + (IF RecentMet(m) THEN 400 ELSE 0)
    ELSE 0

MapStatsQuality(m) ==
    IF m.mapNameProvided /\ minMatchesForMapStats > 0 /\ MapMet(m) THEN 1000 ELSE 0

RankQuality(m) == IF m.hasValidRanks THEN 1000 ELSE 0

\* The conditions under which each penalty is applied and its tag pushed.
PlayerStatsPenalised(m) ==
    m.totalPlayers > 0 /\ m.playersWithStats < minPlayersWithStats * 2
H2HPenalised(m) == minTotalMatches > 0 /\ ~TotalMet(m)

\* A recent-matches penalty that does not ask whether the total was met.
RecentPenalisedAlone(m) == minTotalMatches > 0 /\ ~RecentMet(m)

\* `!recentMet && totalMet`
RecentPenalised(m) == minTotalMatches > 0 /\ ~RecentMet(m) /\ TotalMet(m)
MapPenalised(m) == m.mapNameProvided /\ minMatchesForMapStats > 0 /\ ~MapMet(m)
RankPenalised(m) == ~m.hasValidRanks

Penalty(applies, tag, factor) ==
    IF applies THEN <<[tag |-> tag, factor |-> factor]>> ELSE <<>>

\* The penalties in the order in which the function applies them.
Penalties(m) ==
    Penalty(PlayerStatsPenalised(m), "insufficient_player_stats", noPlayerStats)
        \o Penalty(H2HPenalised(m), "insufficient_h2h_matches", insufficientH2H)
        \o Penalty(RecentPenalised(m), "insufficient_recent_h2h", insufficientRecentH2H)
        \o Penalty(MapPenalised(m), "insufficient_map_data", insufficientMapData)
        \o Penalty(RankPenalised(m), "missing_team_ranks", missingRank)

\* finalConfidence after the first k penalties, starting at 1.0
RECURSIVE Penalised(_, _)
Penalised(ps, k) == IF k = 0 THEN One ELSE Scale(Penalised(ps, k - 1), ps[k].factor)

\* totalWeight: the four weights, whatever was requested
TotalWeight ==
    qualityWeights.playerStats + qualityWeights.h2h + qualityWeights.mapStats
        + qualityWeights.rank

WeightedQualityScore(m) ==
    IF TotalWeight > 0
    THEN Quot(PlayerStatsQuality(m) * qualityWeights.playerStats
              + H2HQuality(m) * qualityWeights.h2h
              + MapStatsQuality(m) * qualityWeights.mapStats
              + RankQuality(m) * qualityWeights.rank, TotalWeight)
    ELSE 0

QualityLevel(score) ==
    IF score >= thresholdsHigh THEN "high"
    ELSE IF score >= thresholdsMedium THEN "medium"
    ELSE "low"

\* A low quality that leaves the confidence uncapped.
NoLowQualityCap(c, q) == c

\* Math.min(finalConfidence, lowQualityCap) when the quality level is low
LowQualityCap(c, q) == IF q = "low" THEN Min(c, Scale(One, lowQualityCap)) ELSE c

Tags(ps) == [k \in 1..Len(ps) |-> ps[k].tag]

CalculateConfidenceLevel(m) ==
    LET ps == Penalties(m)
        score == WeightedQualityScore(m)
        q == QualityLevel(score)
        capped == LowQualityCap(Scale(Penalised(ps, Len(ps)), defaultConfidence), q)
    IN ConfidenceResult(Max(0, Min(One, capped)),
                        IF q = "low" THEN Append(Tags(ps), "low_overall_data_quality")
                        ELSE Tags(ps),
                        q, score)

\* Steps 5 and 6 in one turn: the probabilities and the confidence.
Resolve ==
    /\ ~resolveDone
    /\ team1Prob' = ClampProbability(Logistic(finalDifference))
    /\ team2Prob' = Complement(ClampProbability(Logistic(finalDifference)))
    /\ confidence' = CalculateConfidenceLevel(metrics)
    /\ resolveDone' = TRUE
    /\ UNCHANGED <<finalDifference, metrics>>
    /\ UNCHANGED offResolveVars

\* The metrics a confidence is computed for.
MaxTotalPlayers == 10
MetricsInputs ==
    {Metrics(total, withStats, detailed, h2h, recent, mapMatches, mapProvided, ranks) :
        total \in {0, MaxTotalPlayers}, withStats \in 0..MaxTotalPlayers,
        detailed \in {0, MaxTotalPlayers * expectedDataPoints},
        h2h \in 0..minTotalMatches, recent \in 0..minTotalMatches,
        mapMatches \in {0, minMatchesForMapStats}, mapProvided \in BOOLEAN,
        ranks \in BOOLEAN}
WellFormedMetrics ==
    {m \in MetricsInputs :
        /\ m.playersWithStats <= m.totalPlayers
        /\ m.detailedStatsCount <= m.totalPlayers * expectedDataPoints}

ResolveInit ==
    /\ InitCommon
    /\ NoCalls
    /\ cacheFile = EmptyTable
    /\ NoRating
    /\ NoAdjustmentInputs
    /\ NoNudges
    /\ finalDifference \in FinalDifferences
    /\ metrics \in WellFormedMetrics
    /\ NotResolved

ResolveNext == Resolve

ResolveSpec == ResolveInit /\ [][ResolveNext]_vars

\* C23: for every effectiveDifference the team1 probability lies in
\* [minProbability, maxProbability], the team2 probability is 1 minus it,
\* their sum is exactly 1, and the team2 probability lies in the same
\* interval.
C23_ProbabilitiesBoundedAndComplementary ==
    resolveDone =>
        /\ minProbability <= team1Prob /\ team1Prob <= maxProbability
        /\ team2Prob = One - team1Prob
        /\ team1Prob + team2Prob = One
        /\ minProbability <= team2Prob /\ team2Prob <= maxProbability

\* C24: for every metrics input the confidence level lies in [0, 1], and
\* it is at most lowQualityCap whenever the quality level is low.
C24_ConfidenceBoundedAndCapped ==
    resolveDone =>
        /\ 0 <= confidence.level /\ confidence.level <= One
        /\ confidence.qualityLevel = "low" => confidence.level * 100 <= lowQualityCap * One

\* Low quality without any penalty: only the cap brings the level down.
C24_Witness ==
    /\ resolveDone
    /\ confidence.qualityLevel = "low"
    /\ confidence.factors = <<"low_overall_data_quality">>
    /\ confidence.level * 100 = lowQualityCap * One

HasTag(t) == \E k \in 1..Len(confidence.factors) : confidence.factors[k] = t
TagCount(t) == Cardinality({k \in 1..Len(confidence.factors) : confidence.factors[k] = t})
PenaltyTags ==
    <<"insufficient_player_stats", "insufficient_h2h_matches", "insufficient_recent_h2h",
      "insufficient_map_data", "missing_team_ranks">>

\* C25: each of the five requirements is penalised exactly when it is
\* unmet: players with stats below the minimum, head-to-head matches below
\* the minimum, recent head-to-head matches below the minimum, a map
\* requested with too few map matches, ranks missing.
C25_PenalisedExactlyWhenUnmet ==
    resolveDone =>
        /\ HasTag("insufficient_player_stats")
              <=> metrics.playersWithStats < minPlayersWithStats * 2
        /\ HasTag("insufficient_h2h_matches") <=> metrics.h2hMatches < minTotalMatches
        /\ HasTag("insufficient_recent_h2h") <=> metrics.recentH2HMatches < minRecentMatches
        /\ HasTag("insufficient_map_data")
              <=> (metrics.mapNameProvided
                   /\ metrics.mapSpecificMatches < minMatchesForMapStats)
        /\ HasTag("missing_team_ranks") <=> ~metrics.hasValidRanks

\* The factor by which a requirement lowers the confidence.
FactorIf(unmet, factor) == IF unmet THEN factor ELSE 100

\* C25 as the code has it: the player-stats penalty is applied when there
\* are players at all and too few have stats, the recent-matches penalty
\* only when the total was met and the recent count was not; the others as
\* stated. The level is the product of the applied factors and the default
\* confidence (capped when the quality is low), and factors holds each tag
\* at most once, in the order triggered.
C25_PenaltiesAsApplied ==
    resolveDone =>
        LET fewPlayers == metrics.totalPlayers > 0
                          /\ metrics.playersWithStats < minPlayersWithStats * 2
            fewTotal == metrics.h2hMatches < minTotalMatches
            fewRecent == metrics.recentH2HMatches < minRecentMatches /\ ~fewTotal
            fewMap == metrics.mapNameProvided
                      /\ metrics.mapSpecificMatches < minMatchesForMapStats
            noRanks == ~metrics.hasValidRanks
            product ==
                Scale(Scale(Scale(Scale(Scale(Scale(One,
                    FactorIf(fewPlayers, noPlayerStats)),
                    FactorIf(fewTotal, insufficientH2H)),
                    FactorIf(fewRecent, insufficientRecentH2H)),
                    FactorIf(fewMap, insufficientMapData)),
                    FactorIf(noRanks, missingRank)),
                    defaultConfidence)
        IN /\ HasTag("insufficient_player_stats") <=> fewPlayers
           /\ HasTag("insufficient_h2h_matches") <=> fewTotal
           /\ HasTag("insufficient_recent_h2h") <=> fewRecent
           /\ HasTag("insufficient_map_data") <=> fewMap
           /\ HasTag("missing_team_ranks") <=> noRanks
           /\ confidence.level =
                 IF confidence.qualityLevel = "low"
                 THEN Min(product, Scale(One, lowQualityCap))
                 ELSE product
           /\ \A i \in 1..Len(PenaltyTags) : TagCount(PenaltyTags[i]) <= 1
           /\ \A i, j \in 1..Len(PenaltyTags) :
                 \A a, b \in 1..Len(confidence.factors) :
                    (/\ i < j
                     /\ confidence.factors[a] = PenaltyTags[i]
                     /\ confidence.factors[b] = PenaltyTags[j]) => a < b

\* Neither head-to-head minimum is met: the total is penalised and the
\* recent count is not; every other requirement is penalised as well.
C25_Witness ==
    /\ resolveDone
    /\ metrics.h2hMatches < minTotalMatches
    /\ metrics.recentH2HMatches < minRecentMatches
    /\ ~HasTag("insufficient_recent_h2h")
    /\ HasTag("insufficient_h2h_matches")
    /\ HasTag("insufficient_player_stats")
    /\ HasTag("insufficient_map_data")
    /\ HasTag("missing_team_ranks")

\* C26: when no map was requested the map-stats category is left out of
\* the weighted quality score, numerator and total weight alike, so that
\* the score is 1.0 when the other three categories are perfect.
C26_MapCategoryNotCountedWithoutMap ==
    (resolveDone /\ ~metrics.mapNameProvided) =>
        /\ confidence.weightedQualityScore =
              Quot(PlayerStatsQuality(metrics) * qualityWeights.playerStats
                   + H2HQuality(metrics) * qualityWeights.h2h
                   + RankQuality(metrics) * qualityWeights.rank,
                   qualityWeights.playerStats + qualityWeights.h2h + qualityWeights.rank)
        /\ (/\ PlayerStatsQuality(metrics) = 1000
            /\ H2HQuality(metrics) = 1000
            /\ RankQuality(metrics) = 1000) => confidence.weightedQualityScore = 1000

\* The metrics predictWinProbability builds: no detailedStatsCount and no
\* mapSpecificMatches, recentH2HMatches a copy of h2hMatches.
PredictionMetrics(total, withStats, h2h, mapProvided, ranks) ==
    Metrics(total, withStats, 0, h2h, h2h, 0, mapProvided, ranks)

\* C27: with complete data (all players of both rosters with stats, the
\* head-to-head record meeting the minimum counts, both ranks valid, no map
\* requested) the quality level is high, the confidence level is the
\* default confidence and factors is empty.
C27_CompleteDataGivesHighConfidence ==
    (/\ resolveDone
     /\ metrics = PredictionMetrics(MaxTotalPlayers, MaxTotalPlayers, minTotalMatches,
                                    FALSE, TRUE))
    => /\ confidence.qualityLevel = "high"
       /\ confidence.level = Scale(One, defaultConfidence)
       /\ confidence.factors = <<>>

\* ------------------------------------------------------------------------
\* fetchPlayerStatsById: the validation of the upstream response
\* ------------------------------------------------------------------------

\* What stats.rating of an upstream stats object can be.  "string" is a
\* text that is not a number ('N/A'), "finite" any finite number.
RatingKinds == {"undefined", "null", "string", "NaN", "Infinity", "-Infinity", "finite"}

\* What the retried upstream call does: it rejects, it resolves with
\* nothing, or it resolves with a stats object of the given rating.
Responses == {"throws", "empty"} \cup RatingKinds

\* What the cache holds for an id before the call: no entry, a known miss
\* (stats: null) or the stats of an earlier fetch, none of them expired.
CachedBefore == {"absent", "null", "finite"}

\* typeof stats.rating
TypeOf(k) ==
    CASE k = "undefined" -> "undefined"
      [] k = "null" -> "object"
      [] k = "string" -> "string"
      [] OTHER -> "number"

\* isNaN(stats.rating): the argument converted to a number is NaN.
IsNaN(k) == k \in {"undefined", "string", "NaN"}

\* Number.isFinite(stats.rating)
IsFinite(k) == k = "finite"

\* The "basic validation" of the response: the rating is accepted unless
\* typeof stats.rating !== 'number' || isNaN(stats.rating).
RatingAccepted(k) == ~(TypeOf(k) # "number" \/ IsNaN(k))

\* getCacheValue(playerId) is truthy: the entry holds a stats object.
IsCached(c, id) == c[id] \notin {"absent", "null"}

\* fetchPlayerStatsById(playerId): a cached stats
\* object is returned as it is; otherwise the response decides, and what
\* is returned is also what updateCacheValue stores for the id (a stats
\* object is named by its rating).  The save that updateCache schedules is
\* the gateway's (Complete).
FetchResult(c, id, r) ==
    IF IsCached(c, id) THEN c[id]
    ELSE IF r = "throws" THEN "null"
    ELSE IF r = "empty" THEN "null"
    ELSE IF ~RatingAccepted(r) THEN "null"
    ELSE r

FetchPlayerStatsById ==
    /\ isInitialized
    /\ fetchReturn = "none"
    /\ fetchReturn' = FetchResult(statsCache, fetchId, response)
    /\ statsCache' = IF IsCached(statsCache, fetchId)
                     THEN statsCache
                     ELSE [statsCache EXCEPT ![fetchId] = FetchResult(statsCache, fetchId, response)]
    /\ UNCHANGED <<fetchId, response>>
    /\ UNCHANGED offFetchVars

\* Steps 5 and 6 of a prediction are not under way.
NoResolve == NoResolveInputs /\ NotResolved

FetchInit ==
    /\ isInitialized = TRUE /\ NothingStarted
    /\ cacheFile = EmptyTable
    /\ NoRating
    /\ NoAdjustmentInputs
    /\ NoNudges
    /\ NoResolve
    /\ NoJobs /\ NotShutDown
    /\ fetchId \in PlayerIds
    /\ statsCache \in [PlayerIds -> CachedBefore]
    /\ response \in Responses
    /\ NotFetched
    /\ NoError /\ NotClassified
    /\ NoLoadFile /\ NotLoaded

FetchNext == FetchPlayerStatsById

FetchSpec == FetchInit /\ [][FetchNext]_vars

\* C28: on a successful upstream response (a stats object, on a cache
\* miss), the stats object is cached and returned only if its rating is a
\* finite number; a rating that is missing, non-numeric, NaN or infinite
\* makes null the value cached for the id and the value returned.
C28_StatsKeptOnlyWithFiniteRating ==
    [][(/\ fetchReturn = "none" /\ fetchReturn' # "none"
        /\ ~IsCached(statsCache, fetchId)
        /\ response \in RatingKinds)
           => IF IsFinite(response)
              THEN fetchReturn' = response /\ statsCache'[fetchId] = response
              ELSE fetchReturn' = "null" /\ statsCache'[fetchId] = "null"]_vars

\* ------------------------------------------------------------------------
\* _isTransientError
\* ------------------------------------------------------------------------

\* API_CONFIG: the error classification.  A text is the sequence of its
\* characters.
transientErrorCodes == {"ECONNRESET", "ETIMEDOUT", "ECONNREFUSED"}
transientStatusCodes == {429, 503}
transientErrorPatterns == <<
    <<"r","a","t","e"," ","l","i","m","i","t">>,
    <<"t","i","m","e","o","u","t">>,
    <<"t","e","m","p","o","r","a","r","i","l","y"," ",
      "u","n","a","v","a","i","l","a","b","l","e">> >>

UpperCase == <<"A","B","C","D","E","F","G","H","I","J","K","L","M",
               "N","O","P","Q","R","S","T","U","V","W","X","Y","Z">>
LowerCase == <<"a","b","c","d","e","f","g","h","i","j","k","l","m",
               "n","o","p","q","r","s","t","u","v","w","x","y","z">>

\* String.prototype.toLowerCase
ToLowerCase(s) ==
    [i \in DOMAIN s |->
        IF \E k \in DOMAIN UpperCase : UpperCase[k] = s[i]
        THEN LowerCase[CHOOSE k \in DOMAIN UpperCase : UpperCase[k] = s[i]]
        ELSE s[i]]

\* String.prototype.includes
Includes(s, pat) ==
    \E i \in 0..(Len(s) - Len(pat)) : SubSeq(s, i + 1, i + Len(pat)) = pat

\* error.code && ..., error.status && ..., pattern && ...: the value is truthy.
TruthyCode(c) == c # NoCode /\ c # ""
TruthyStatus(st) == st # Absent /\ st # 0
TruthyText(s) == s # <<>>

\* (error.message || '')
MessageOrEmpty(msg) == IF msg.defined THEN msg.text ELSE <<>>

\* A classification that looks at the code and the status only.
CodeOrStatusTransient(e) ==
    /\ ~e.isNull
    /\ \/ TruthyCode(e.code) /\ e.code \in transientErrorCodes
       \/ TruthyStatus(e.status) /\ e.status \in transientStatusCodes

\* _isTransientError(error), from the error object (the gateway's outcomes
\* "transient" and "permanent" are its two results).
ClassifyError(e) ==
    IF e.isNull THEN FALSE
    ELSE IF TruthyCode(e.code) /\ e.code \in transientErrorCodes THEN TRUE
    ELSE IF TruthyStatus(e.status) /\ e.status \in transientStatusCodes THEN TRUE
    ELSE LET errorMessage == ToLowerCase(MessageOrEmpty(e.message)) IN
         \E k \in DOMAIN transientErrorPatterns :
            /\ TruthyText(transientErrorPatterns[k])
            /\ Includes(errorMessage, ToLowerCase(transientErrorPatterns[k]))

\* The errors classified: codes inside and outside the configured set (one
\* of them in the wrong case, one empty), statuses inside and outside it,
\* and messages with and without a pattern, in upper, lower and mixed case.
ErrorCodes == {NoCode, "", "ECONNRESET", "ETIMEDOUT", "ECONNREFUSED", "ENOTFOUND", "econnreset"}
ErrorStatuses == {Absent, 0, 404, 429, 500, 503}
ErrorTexts == {
    <<>>,
    <<"R","a","t","e"," ","L","i","m","i","t"," ","h","i","t">>,
    <<"R","e","q","u","e","s","t"," ","T","I","M","E","O","U","T">>,
    <<"t","i","m","e"," ","o","u","t">>,
    <<"N","o","t"," ","F","o","u","n","d">>,
    <<"t","e","m","p","o","r","a","r","i","l","y"," ",
      "u","n","a","v","a","i","l","a","b","l","e">>,
    <<"r","a","t","e","l","i","m","i","t">> }
ErrorMessages ==
    {[defined |-> FALSE, text |-> <<>>]} \cup {[defined |-> TRUE, text |-> t] : t \in ErrorTexts}
Errors ==
    {NullError} \cup
    {ErrorOf(c, st, msg.defined, msg.text) : c \in ErrorCodes, st \in ErrorStatuses, msg \in ErrorMessages}

\* _isTransientError(error) is called, as _retryableRequest does with what
\* its operation threw.
Classify ==
    /\ isInitialized
    /\ transient = "none"
    /\ transient' = IF ClassifyError(error) THEN "yes" ELSE "no"
    /\ UNCHANGED error
    /\ UNCHANGED offClassifyVars

ClassifyInit ==
    /\ isInitialized = TRUE /\ NothingStarted
    /\ cacheFile = EmptyTable
    /\ NoRating
    /\ NoAdjustmentInputs
    /\ NoNudges
    /\ NoResolve
    /\ NoJobs /\ NotShutDown
    /\ NoFetchInputs /\ NotFetched
    /\ error \in Errors
    /\ NotClassified
    /\ NoLoadFile /\ NotLoaded

ClassifyNext == Classify

ClassifySpec == ClassifyInit /\ [][ClassifyNext]_vars

\* C29: an error is classified transient if and only if its code is in the
\* configured code set, or its status is in the configured status set, or
\* its lowercased message contains one of the configured patterns; a null
\* or absent error and every other error is classified non-transient.
C29_TransientIffCodeStatusOrPattern ==
    transient # "none" =>
        (transient = "yes" <=>
            /\ ~error.isNull
            /\ \/ error.code \in transientErrorCodes
               \/ error.status \in transientStatusCodes
               \/ \E k \in DOMAIN transientErrorPatterns :
                    Includes(ToLowerCase(error.message.text), transientErrorPatterns[k]))

\* An error without code and status whose message holds a pattern in
\* capital letters has been classified transient.
C29_Witness ==
    /\ transient = "yes"
    /\ error.code = NoCode /\ error.status = Absent
    /\ error.message.text # ToLowerCase(error.message.text)

\* ------------------------------------------------------------------------
\* loadCache on any file
\* ------------------------------------------------------------------------

\* What the file holds for a player id: [id, null], an object without a
\* timestamp, an entry younger or older than the expiration, or an entry
\* whose timestamp is not a date (new Date(timestamp) is an Invalid Date).
EntryKinds == {"null", "noTimestamp", "fresh", "expired", "badTimestamp"}
FileEntries == [PlayerIds -> EntryKinds \cup {"absent"}]

\* The files: none (ENOENT), one that cannot be read, text that is not
\* JSON, JSON that is not an array, an array with an element that is not a
\* [number, object] pair beside the entries given, and a list of entries.
FileOf(k, es) == [kind |-> k, entries |-> es]
Files ==
    {FileOf(k, EmptyMap) : k \in {"missing", "unreadable", "unparseable", "notArray"}}
    \cup {FileOf(k, es) : k \in {"badElement", "entries"}, es \in FileEntries}

\* The validation of loadCache: the parsed data is an array of pairs of a
\* number and an object (typeof null is 'object').
HasValidFormat(f) == f.kind = "entries"

\* !cacheEntry
IsNullEntry(k) == k = "null"

\* !cacheEntry.timestamp
LacksTimestamp(k) == k = "noTimestamp"

\* isBefore(new Date(cacheEntry.timestamp), expirationDate): false for an
\* Invalid Date, whose time value is NaN.
IsBeforeExpiration(k) == k = "expired"

\* pruneExpiredCacheEntries: the entry is deleted.
Pruned(k) == IsNullEntry(k) \/ LacksTimestamp(k) \/ IsBeforeExpiration(k)

\* pruneExpiredCacheEntries() on the Map es: <<the Map left, saveCache() was called>>.
PruneEntries(es) ==
    IF isTestMode \/ cacheExpirationHours <= 0
    THEN <<es, FALSE>>
    ELSE <<[i \in PlayerIds |-> IF es[i] # "absent" /\ Pruned(es[i]) THEN "absent" ELSE es[i]],
           \E i \in PlayerIds : es[i] # "absent" /\ Pruned(es[i])>>

\* loadCache(): <<playerStatsCache, saveCache() was called>>.
LoadCacheFrom(f, current) ==
    IF isTestMode THEN <<current, FALSE>>
    ELSE IF f.kind \in {"missing", "unreadable", "unparseable"} THEN <<EmptyMap, FALSE>>
    ELSE IF ~HasValidFormat(f) THEN <<EmptyMap, FALSE>>
    ELSE PruneEntries(f.entries)

\* initialize() reaches `await loadCacheData()`, after initCacheManager.
LoadCache ==
    /\ ~isInitialized
    /\ ~loadDone
    /\ loadDone' = TRUE
    /\ loadedCache' = LoadCacheFrom(loadFile, loadedCache)[1]
    /\ loadSave' = LoadCacheFrom(loadFile, loadedCache)[2]
    /\ UNCHANGED loadFile
    /\ UNCHANGED offLoadVars

LoadInit ==
    /\ InitCommon
    /\ cacheFile = EmptyTable
    /\ NoRating
    /\ NoAdjustmentInputs
    /\ NoNudges
    /\ NoResolve
    /\ NoJobs /\ NotShutDown
    /\ NoFetchInputs /\ NotFetched
    /\ NoError /\ NotClassified
    /\ loadFile \in Files
    /\ NotLoaded

LoadNext == LoadCache

LoadSpec == LoadInit /\ [][LoadNext]_vars

\* An entry of the file that is well formed (a stats object with a
\* timestamp that is a date) and not older than the expiration.
WellFormedAndCurrent(k) == k = "fresh"

\* C30: after loadCache the in-memory cache contains exactly the entries
\* of the persisted file that are well formed and not older than the
\* expiration, and it is empty when the file is missing, unparseable or of
\* the wrong shape.
C30_LoadedExactlyCurrentEntries ==
    loadDone =>
        loadedCache =
            [i \in PlayerIds |->
                IF loadFile.kind = "entries" /\ WellFormedAndCurrent(loadFile.entries[i])
                THEN loadFile.entries[i]
                ELSE "absent"]

\* ------------------------------------------------------------------------
\* Scenarios of predictWinProbability
\* ------------------------------------------------------------------------

\* clampedTeam1Prob for an effective difference d (steps 5 of
\* predictWinProbability applied to the outcome of steps 2 to 4).
Team1ProbOf(d) == ClampProbability(Logistic(d))

\* The scenario of C31: no strength difference, ranks 1 and 2, a
\* head-to-head answer with fewer matches than the minimum; the
\* adjustments are done.
RankOnlyScenario ==
    /\ nudgePhase = "done"
    /\ baseDifference = 0
    /\ teamRanks = [team1 |-> 1, team2 |-> 2]
    /\ h2hResults.kind # "throws"
    /\ ~EnoughMatches(h2hResults)

\* C31 as stated: in the scenario the rank nudge is applied, the H2H nudge
\* is skipped, and team1's probability is the logistic function of the
\* configured rank-nudge magnitude rankNudgeEffect.
C31_RankOneFavouredByRankNudgeEffect ==
    RankOnlyScenario =>
        /\ adjustments[1] = "RankNudge: Applied"
        /\ adjustments[2] = "H2HNudge: Skipped"
        /\ h2hNudge = 0
        /\ Team1ProbOf(effectiveDifference) = Team1ProbOf(rankNudgeEffect)

\* C31: in the scenario the rank nudge is applied, the H2H nudge is
\* skipped, and team1 (rank 1) is favoured by the rank difference times
\* 0.001, here 0.001, which the configured magnitude only caps: its
\* probability is the logistic function of 0.001, just above one half.
C31_RankOneFavouredByScaledRankDifference ==
    RankOnlyScenario =>
        /\ adjustments[1] = "RankNudge: Applied"
        /\ adjustments[2] = "H2HNudge: Skipped"
        /\ h2hNudge = 0
        /\ rankNudge = (2 - 1) * rankScale
        /\ rankNudge < rankNudgeEffect
        /\ effectiveDifference = rankNudge
        /\ Team1ProbOf(effectiveDifference) = 502500
        /\ Team1ProbOf(effectiveDifference) > Complement(Team1ProbOf(effectiveDifference))

\* The scenario has run with a head-to-head record of two matches.
C31_Witness ==
    /\ RankOnlyScenario
    /\ h2hResults.kind = "record" /\ h2hResults.totalMatches = minMatches - 1
    /\ effectiveDifference = 1

\* The scenario of C32: the head-to-head record is 5-3 in 8 and the
\* adjustments are done.
FiveThreeScenario ==
    /\ nudgePhase = "done"
    /\ h2hResults = RecordOf(5, 3, 8)

\* The numbers an H2HNudge entry shows.
NumbersShown(note) ==
    {note.value, ToFixed3(note.team1Wins * 1000), ToFixed3(note.team2Wins * 1000),
     ToFixed3(note.totalMatches * 1000)}

\* C32 as stated: for the record 5-3 in 8 the H2H nudge is positive and
\* its adjustments entry contains the win-rate differential 5/8 - 3/8.
C32_EntryShowsWinRateDifferential ==
    FiveThreeScenario =>
        /\ h2hNudge > 0
        /\ h2hEntry.written
        /\ ToFixed3(WinRateDiff(h2hResults)) \in NumbersShown(h2hEntry)

\* C32: for the record 5-3 in 8 the H2H nudge is positive, 0.05 (the
\* win-rate differential 0.25 times maxEffect times 2), and its
\* adjustments entry shows that nudge to three decimals and the record
\* (5-3 in 8); the win-rate differential itself is not in the entry.
C32_EntryShowsNudgeAndRecord ==
    FiveThreeScenario =>
        /\ h2hNudge = 50
        /\ WinRateDiff(h2hResults) = 250
        /\ h2hEntry = NoteOf(h2hNudge, 5, 3, 8)
        /\ h2hEntry.value = [negative |-> FALSE, whole |-> 0, decimals |-> 50]
        /\ ToFixed3(WinRateDiff(h2hResults)) \notin NumbersShown(h2hEntry)
        /\ \E k \in 1..Len(adjustments) : adjustments[k] = "H2HNudge: Applied"

\* The scenario has run for two teams of different strength.
C32_Witness ==
    /\ FiveThreeScenario
    /\ baseDifference > 0
    /\ h2hNudge > 0
    /\ effectiveDifference = baseDifference + h2hNudge

\* ------------------------------------------------------------------------
\* hltvClient: fetchTeamDataByName
\* ------------------------------------------------------------------------

\* A call slot asks for a team record.
TEAM == "team"

\* What hltv.getTeamByName can do inside the operation: return a valid
\* team, return nothing, return a record _validateTeamData rejects, fail
\* with a transient error, fail with any other error.
TeamOutcomes == {"team", "notFound", "invalid", "transient", "permanent"}

\* The operation fetchTeamDataByName hands to _retryableRequest: its own
\* try/catch turns a missing team, a validation error and every error of
\* the upstream call into the value null, so it never rejects.
TeamOperation(o) ==
    [rejected |-> FALSE, value |-> IF o = "team" THEN "team" ELSE "null"]

\* fetchTeamDataByName(teamName) up to its first suspension: attempt 1 of
\* _retryableRequest, which waits delayBetweenCalls.
CallTeam(t) ==
    /\ isInitialized /\ ~exited
    /\ pc[t] = "idle"
    /\ \A u \in Tasks : u < t => pc[u] # "idle"
    /\ player' = [player EXCEPT ![t] = TEAM]
    /\ upstreamCalls' = [upstreamCalls EXCEPT ![t] = 0]
    /\ lastOutcome' = [lastOutcome EXCEPT ![t] = "none"]
    /\ pc' = [pc EXCEPT ![t] = "delay"]
    /\ result' = [result EXCEPT ![t] = "none"]
    /\ attempt' = [attempt EXCEPT ![t] = 1]
    /\ timer' = [timer EXCEPT ![t] = delayBetweenCalls]
    /\ UNCHANGED <<isInitialized, exited, isTestMode, syncSave, cacheVars, limiterVars, sinceLastEnd>>
    /\ UNCHANGED offGatewayVars

\* The upstream call of task t settles with outcome o and the operation
\* returns.  p-limit releases the slot and starts the head of its queue;
\* _retryableRequest returns the operation's value, or goes into the
\* backoff of its next attempt if the operation rejected with a transient
\* error.
CompleteTeam(t, o) ==
    /\ ~exited
    /\ pc[t] = "inflight" /\ player[t] = TEAM
    /\ LET released == ReleaseSlot(activeCount)
           starts == Len(queue) > 0 /\ LimitAdmits(released)
           h == IF starts THEN Head(queue) ELSE t
           operation == TeamOperation(o)
           retry == operation.rejected /\ ShouldRetry(o, attempt[t])
       IN
       /\ activeCount' = IF starts THEN released + 1 ELSE released
       /\ queue' = IF starts THEN Tail(queue) ELSE queue
       /\ pc' = [x \in Tasks |->
                   IF x = t THEN (IF retry THEN "backoff" ELSE "done")
                   ELSE IF starts /\ x = h THEN "inflight"
                   ELSE pc[x]]
       /\ upstreamCalls' = [x \in Tasks |->
                   IF starts /\ x = h THEN upstreamCalls[x] + 1
                   ELSE upstreamCalls[x]]
       /\ attempt' = [attempt EXCEPT ![t] = IF retry THEN @ + 1 ELSE @]
       /\ timer' = [timer EXCEPT ![t] = IF retry THEN BackoffDelay(attempt[t] + 1) ELSE 0]
       /\ result' = [result EXCEPT ![t] = IF retry THEN "none" ELSE operation.value]
       /\ lastOutcome' = [lastOutcome EXCEPT ![t] = o]
    /\ sinceLastEnd' = 0
    /\ UNCHANGED <<isInitialized, exited, isTestMode, syncSave, cacheVars, player>>
    /\ UNCHANGED offGatewayVars

\* runPredictions fetches the two teams of a match at once.
TeamNext ==
    \/ Initialize
    \/ \E t \in Tasks : CallTeam(t)
    \/ \E t \in Tasks : WakeDelay(t)
    \/ \E t \in Tasks, o \in TeamOutcomes : CompleteTeam(t, o)
    \/ \E t \in Tasks : Return(t)
    \/ Tick

TeamSpec == Init /\ [][TeamNext]_vars

\* C33: when the upstream call inside fetchTeamDataByName fails with a
\* transient error and attempts remain, the call is attempted again: the
\* team is reported as unavailable (null) only after retryAttempts
\* upstream calls.
C33_TransientTeamErrorIsRetried ==
    [][\A t \in Tasks :
          (/\ pc[t] = "inflight" /\ player[t] = TEAM
           /\ pc'[t] # "inflight"
           /\ lastOutcome'[t] = "transient")
              => /\ attempt[t] < retryAttempts => pc'[t] = "backoff"
                 /\ result'[t] = "null" => upstreamCalls'[t] = retryAttempts]_vars

----------------------------------------------------------------------------
\* The scheduler's prediction jobs.

\* The options each job passes to runPredictions.
JobOptions(j) == [track |-> TRUE, retryFailedOnly |-> j = "retryJob"]

\* storePrediction calls per match are counted up to this bound.
MaxStores == 3

\* The position of a run that has left the loop over the matches.
RunOver == MaxTodaysMatches + 1

\* A cron job fires: runPredictions fetches today's matches; when the fetch
\* fails the run ends at once, otherwise the loop starts at the first match.
\* The retryFailedOnly option is logged and read nowhere else.
FireJob(j, listed) ==
    /\ isInitialized
    /\ jobPos[j] = 0
    /\ jobPos' = [jobPos EXCEPT ![j] = IF listed THEN 1 ELSE RunOver]
    /\ UNCHANGED stores
    /\ UNCHANGED offJobVars

\* One turn of the loop of runPredictions: the match is predicted, and a
\* prediction that was made is stored when the run tracks.
ProcessMatch(j, predicted) ==
    /\ jobPos[j] \in TodaysMatches
    /\ predicted => stores[jobPos[j]] < MaxStores
    /\ stores' = IF predicted /\ JobOptions(j).track
                 THEN [stores EXCEPT ![jobPos[j]] = @ + 1]
                 ELSE stores
    /\ jobPos' = [jobPos EXCEPT ![j] = @ + 1]
    /\ UNCHANGED offJobVars

\* The run returns and the job waits for its next firing.
FinishJob(j) ==
    /\ jobPos[j] = RunOver
    /\ jobPos' = [jobPos EXCEPT ![j] = 0]
    /\ UNCHANGED stores
    /\ UNCHANGED offJobVars

JobsInit ==
    /\ isInitialized = TRUE /\ NothingStarted
    /\ cacheFile = EmptyTable
    /\ NoRating /\ NoAdjustmentInputs /\ NoNudges /\ NoResolve
    /\ NoCalls

JobsNext ==
    \/ \E j \in Jobs, listed \in BOOLEAN : FireJob(j, listed)
    \/ \E j \in Jobs, predicted \in BOOLEAN : ProcessMatch(j, predicted)
    \/ \E j \in Jobs : FinishJob(j)

JobsSpec == JobsInit /\ [][JobsNext]_vars

\* C34: the retry job re-processes only the matches whose prediction failed
\* before: it stores a prediction for a match only when none is stored for
\* it yet, also when it runs together with the daily job.
C34_RetryJobStoresOnlyFailedMatches ==
    [][\A i \in TodaysMatches :
          (jobPos'["retryJob"] # jobPos["retryJob"] /\ stores'[i] > stores[i])
              => stores[i] = 0]_vars

----------------------------------------------------------------------------
\* The end of the process on a signal.

\* The cron jobs startScheduler starts and stopScheduler stops.
NumCronJobs == 3

\* startScheduler(), called once the client is initialised.
StartScheduler ==
    /\ isInitialized /\ ~exited
    /\ cronJobs = 0
    /\ cronJobs' = NumCronJobs
    /\ UNCHANGED shutdownLog
    /\ UNCHANGED <<gatewayVars, offShutdownVars>>

\* The signals that have listeners.
Signals == {"SIGTERM", "SIGINT"}

\* The listeners of a signal in the order of their registration: the
\* modules index.js imports are evaluated before its own body, so
\* hltvClient.js registers gracefulShutdown before index.js registers
\* shutdown.
SignalListeners == <<"gracefulShutdown", "shutdown">>

\* What a listener does, in order; both end in process.exit(0).
ListenerSteps(l) ==
    IF l = "gracefulShutdown"
    THEN (IF isInitialized THEN <<"saveCacheSync">> ELSE <<>>) \o <<"process.exit">>
    ELSE <<"stopScheduler", "process.exit">>

\* The 'exit' listener of hltvClient.js, run by process.exit.
OnExitSteps == IF isInitialized THEN <<"saveCacheSync">> ELSE <<>>

\* The process emits the signal: its listeners run in order, and the first
\* process.exit runs the 'exit' listener and ends the process, so the
\* listeners after it are never called.
RECURSIVE StepsUntilExit(_)
StepsUntilExit(ls) ==
    IF ls = <<>> THEN <<>>
    ELSE LET steps == ListenerSteps(Head(ls))
         IN IF \E i \in 1..Len(steps) : steps[i] = "process.exit"
            THEN steps \o OnExitSteps
            ELSE steps \o StepsUntilExit(Tail(ls))

\* Whether a step occurs in a sequence of steps, and where it first does.
Occurs(step, steps) == \E i \in 1..Len(steps) : steps[i] = step
FirstOf(step, steps) == CHOOSE i \in 1..Len(steps) :
    steps[i] = step /\ \A k \in 1..(i - 1) : steps[k] # step

\* SIGTERM or SIGINT arrives.
Signal(c, ok1, ok2) ==
    /\ ~exited
    /\ exited' = TRUE
    /\ LET steps == StepsUntilExit(SignalListeners)
           saves == Cardinality({i \in 1..Len(steps) : steps[i] = "saveCacheSync"})
           st0 == <<playerStatsCache, cacheFile, saveTimers, saveCacheTimeout>>
           st == IF saves = 0 THEN st0
                 ELSE IF saves = 1 THEN SaveCacheSync(st0, ok2)
                 ELSE SaveCacheSync(SaveCacheSync(st0, ok1), ok2)
       IN /\ shutdownLog' = steps
          /\ cronJobs' = IF Occurs("stopScheduler", steps) THEN 0 ELSE cronJobs
          /\ syncSave' = IF saves = 0 \/ isTestMode THEN "skipped"
                         ELSE IF (saves = 2 /\ ok1) \/ ok2 THEN "saved"
                         ELSE "error"
          /\ playerStatsCache' = st[1]
          /\ cacheFile' = st[2]
          /\ saveTimers' = st[3]
          /\ saveCacheTimeout' = st[4]
    /\ UNCHANGED <<isInitialized, isTestMode, limiterVars, taskVars, sinceLastEnd>>
    /\ UNCHANGED offShutdownVars

ShutdownNext ==
    \/ Initialize
    \/ StartScheduler
    \/ \E p \in Players, s \in {"S", "null"} : CacheUpdate(p, s)
    \/ Tick
    \/ \E i \in 1..Len(saveTimers), ok \in BOOLEAN : SaveTimerFire(i, ok)
    \/ \E c \in Signals, ok1 \in BOOLEAN, ok2 \in BOOLEAN : Signal(c, ok1, ok2)

ShutdownSpec == PersistInit /\ [][ShutdownNext]_vars

\* C35: when SIGTERM or SIGINT ends the running application, the scheduler
\* is stopped first, then the cache is flushed synchronously, then the
\* process exits: at the end no cron job runs, and stopScheduler precedes
\* a saveCacheSync that precedes nothing but the end of the process.
C35_StopSchedulerThenFlushThenExit ==
    (exited /\ isInitialized /\ shutdownLog # <<>>)
        => /\ cronJobs = 0
           /\ Occurs("stopScheduler", shutdownLog)
           /\ Occurs("saveCacheSync", shutdownLog)
           /\ FirstOf("stopScheduler", shutdownLog) < FirstOf("saveCacheSync", shutdownLog)

----------------------------------------------------------------------------
\* Overlapping calls for one player id.

\* Task u is between its cache lookup and its last upstream answer for p.
InFlightFor(u, p) ==
    player[u] = p /\ pc[u] \in {"delay", "queued", "inflight", "backoff"}

\* C36: requests in flight are not shared.  A call for an id that is not
\* cached, made while another call for the same id is in flight, misses
\* and starts its own request sequence (attempt 1, after the delay, through
\* the limiter); a call that ends writes its own result into the cache as a
\* fresh entry, over whatever an earlier finisher wrote, and changes no
\* other call's result.
C36_OverlappingCallsEachFetchAndLastWriterWins ==
    [][\A t \in Tasks, p \in Players :
          /\ (/\ pc[t] = "idle" /\ pc'[t] # "idle" /\ player'[t] = p
              /\ GetFromCache(p) # "found"
              /\ \E u \in Tasks \ {t} : InFlightFor(u, p))
                 => /\ pc'[t] = "delay"
                    /\ attempt'[t] = 1
                    /\ timer'[t] = delayBetweenCalls
                    /\ result'[t] = "none"
          /\ (pc[t] = "inflight" /\ pc'[t] = "done" /\ player[t] = p)
                 => /\ playerStatsCache'[p] = FreshEntry(result'[t])
                    /\ \A u \in Tasks \ {t} : result'[u] = result[u]]_vars

\* Two calls for p1 overlapped, one got stats and the other nothing, and
\* the cache holds the result of the one that ended last (in test mode no
\* entry expires, so the call that got nothing from upstream had missed
\* before the other one stored its stats).
C36_Witness ==
    /\ isTestMode
    /\ \A t \in Tasks : pc[t] = "done" /\ player[t] = "p1"
    /\ result[1] = "S" /\ lastOutcome[1] = "stats"
    /\ result[2] = "null" /\ lastOutcome[2] = "empty"
    /\ playerStatsCache["p1"] = FreshEntry("null")

----------------------------------------------------------------------------
\* The quality level of the predictions predictWinProbability makes.

\* The metrics are of the shape predictWinProbability builds.
FromPrediction(m) ==
    \E total \in {0, MaxTotalPlayers}, withStats \in 0..MaxTotalPlayers,
       h2h \in 0..minTotalMatches, mapProvided \in BOOLEAN, ranks \in BOOLEAN :
        m = PredictionMetrics(total, withStats, h2h, mapProvided, ranks)

----------------------------------------------------------------------------
\* The total adjustment of a prediction.

\* effectiveDifference - baseDifference once the stages have run.
TotalAdjustment == effectiveDifference - baseDifference

----------------------------------------------------------------------------
\* A call served from the cache.

\* Task t's call returns at its cache lookup with the stats of p.
ServedFromCache(t, p) ==
    pc[t] = "idle" /\ pc'[t] = "done" /\ player'[t] = p

\* C39: a cache hit is read-only.  A call served from the cache returns
\* the stats of an entry that has not expired (in test mode no entry
\* expires); it leaves the cache contents and the entries' ages as they
\* were, schedules no persistence write, takes no limiter slot, waits for
\* no delay and makes no upstream call.
C39_CacheHitIsReadOnly ==
    [][\A t \in Tasks, p \in Players :
          ServedFromCache(t, p)
              => /\ result'[t] = playerStatsCache[p].stats
                 /\ playerStatsCache[p].present
                 /\ isTestMode \/ ~IsExpired(playerStatsCache[p])
                 /\ UNCHANGED cacheVars
                 /\ UNCHANGED limiterVars
                 /\ timer'[t] = 0 /\ attempt'[t] = 0 /\ upstreamCalls'[t] = 0
                 /\ UNCHANGED sinceLastEnd]_vars

\* A call has been served from an entry written some time before, with no
\* save pending and the limiter idle.
C39_Witness ==
    \E t \in Tasks :
        /\ pc[t] = "done" /\ player[t] = "p1"
        /\ lastOutcome[t] = "none" /\ result[t] = "S"
        /\ playerStatsCache["p1"] = [present |-> TRUE, stats |-> "S", age |-> 1]
        /\ saveTimers = <<>>
        /\ activeCount = 0 /\ queue = <<>>

====
